---------------------------- MODULE Spec2Model ----------------------------
(***************************************************************************)
(* A model of the inictus allocator (src/src/lib.rs): the size-class       *)
(* table, the span caches, the thread heap and the small allocation and    *)
(* free paths with their cross-thread ownership protocol.                  *)
(***************************************************************************)
EXTENDS Integers, Naturals, Sequences, FiniteSets, TLC

(***************************************************************************)
(* Program constants (lib.rs:17-68).                                       *)
(***************************************************************************)
SPAN_SIZE == 65536
SPAN_HEADER_SIZE == 128
SPAN_OWNER_ORPHAN == 0
LARGE_CLASS == 255
CLASSES_LINEAR == 8
CLASSES_LINEAR_STEP == 16
CLASSES_PER_DOUBLING == 4
CLASSES_MAX_SIZE == (SPAN_SIZE - SPAN_HEADER_SIZE) \div 2
GEO_MULTIPLIERS == <<16, 19, 23, 27>>

(***************************************************************************)
(* Size classes (lib.rs:1449-1522).                                        *)
(***************************************************************************)
RECURSIVE Pow2(_)
Pow2(k) == IF k = 0 THEN 1 ELSE 2 * Pow2(k - 1)

\* floor(log2(x)) for x >= 1: (usize::BITS - 1) - leading_zeros(x).
RECURSIVE Log2(_)
Log2(x) == IF x <= 1 THEN 0 ELSE 1 + Log2(x \div 2)

\* align is a power of two: (x + mask) & !mask.
align_up(x, align) == ((x + (align - 1)) \div align) * align

\* Mutant of class_to_size: the geometric size is rounded down to 16, not up.
class_to_size_round_down(class) ==
  IF class < CLASSES_LINEAR
  THEN (class + 1) * CLASSES_LINEAR_STEP
  ELSE LET geo_index == class - CLASSES_LINEAR + 1
           order == geo_index \div CLASSES_PER_DOUBLING
           sub == geo_index % CLASSES_PER_DOUBLING
           base == 128 * Pow2(order)
           size == (((base * GEO_MULTIPLIERS[sub + 1]) \div 16) \div 16) * 16
       IN IF size > CLASSES_MAX_SIZE THEN CLASSES_MAX_SIZE ELSE size

class_to_size(class) ==
  IF class < CLASSES_LINEAR
  THEN (class + 1) * CLASSES_LINEAR_STEP
  ELSE LET geo_index == class - CLASSES_LINEAR + 1
           order == geo_index \div CLASSES_PER_DOUBLING
           sub == geo_index % CLASSES_PER_DOUBLING
           base == 128 * Pow2(order)
           size == align_up((base * GEO_MULTIPLIERS[sub + 1]) \div 16, 16)
       IN IF size > CLASSES_MAX_SIZE THEN CLASSES_MAX_SIZE ELSE size

RECURSIVE count_from(_)
count_from(class) ==
  IF class_to_size(class) >= CLASSES_MAX_SIZE THEN class + 1
  ELSE IF class + 1 > 64 THEN class + 1
  ELSE count_from(class + 1)

count_size_classes == count_from(0)

CLASSES_COUNT == count_size_classes

BoolToInt(b) == IF b THEN 1 ELSE 0

\* Mutant of size_to_class: the first threshold is compared with >=.
size_to_class_ge(size) ==
  IF size = 0 THEN 0
  ELSE IF size > CLASSES_MAX_SIZE THEN CLASSES_COUNT - 1
  ELSE IF size <= 128 THEN (size - 1) \div CLASSES_LINEAR_STEP
  ELSE LET log2 == Log2(size)
           order == IF log2 >= 7 THEN log2 - 7 ELSE 0
           base == 128 * Pow2(order)
           t0 == base
           t1 == align_up((base * 19) \div 16, 16)
           t2 == align_up((base * 23) \div 16, 16)
           t3 == align_up((base * 27) \div 16, 16)
           exceeded == BoolToInt(size >= t0) + BoolToInt(size > t1)
                       + BoolToInt(size > t2) + BoolToInt(size > t3)
           order_bump == exceeded \div 4
           sub == exceeded % 4
           final_order == order + order_bump
           geo_index == final_order * CLASSES_PER_DOUBLING + sub
       IN CLASSES_LINEAR + geo_index - 1

size_to_class(size) ==
  IF size = 0 THEN 0
  ELSE IF size > CLASSES_MAX_SIZE THEN CLASSES_COUNT - 1
  ELSE IF size <= 128 THEN (size - 1) \div CLASSES_LINEAR_STEP
  ELSE LET log2 == Log2(size)
           order == IF log2 >= 7 THEN log2 - 7 ELSE 0
           base == 128 * Pow2(order)
           t0 == base
           t1 == align_up((base * 19) \div 16, 16)
           t2 == align_up((base * 23) \div 16, 16)
           t3 == align_up((base * 27) \div 16, 16)
           exceeded == BoolToInt(size > t0) + BoolToInt(size > t1)
                       + BoolToInt(size > t2) + BoolToInt(size > t3)
           order_bump == exceeded \div 4
           sub == exceeded % 4
           final_order == order + order_bump
           geo_index == final_order * CLASSES_PER_DOUBLING + sub
       IN CLASSES_LINEAR + geo_index - 1

(***************************************************************************)
(* Bounds of the model.  The arena, the span capacity, the shard count and *)
(* the cache limits are scaled down from the source (14, (65536-128) /     *)
(* block_size, 8, 2 and 4) so that full caches and exhausted spans occur   *)
(* in small runs; the cap on active spans (4096 in the source) is scaled   *)
(* with the arena so that the capped paths are taken.  The model follows   *)
(* the spans of one size class: classes share no state but the buddy lists *)
(* and the active-span counter.                                            *)
(***************************************************************************)
NumThreads == 2
BUDDY_MAX_ORDER == 3
Capacity == 2
SHARD_COUNT == 1
THREAD_LOCAL_CACHE_SIZE == 1
REUSE_CACHE_LIMIT == 1
MAX_GLOBAL_ACTIVE_SPANS == 1
MaxAllocs == 4
MaxTag == 12
MaxHuge == 2
MaxCalls == 3
MaxPages == 4
MaxAlignLog == 20
ScenarioBlocks == 4

TAG_BITS == 16

\* An unsigned counter (u32 used, usize counts) is held as the signed residue
\* of its value modulo 2^w: a negative v stands for 2^w + v, the value the
\* counter wraps to when it is decremented below zero.  The comparisons below
\* are the unsigned ones.
WrapAdd(x, d) == x + d
WrapSub(x, d) == x - d
UGt(x, y) == x < 0 \/ x > y
UGe(x, y) == x < 0 \/ x >= y

SPANS_PER_ARENA == Pow2(BUDDY_MAX_ORDER)
NULL == -1
Threads == 1..NumThreads
Spans == 0..(SPANS_PER_ARENA - 1)
Blocks == 0..(Capacity - 1)
Shards == 0..(SHARD_COUNT - 1)
Orders == 0..BUDDY_MAX_ORDER

VARIABLES
  span,        \* SpanHeader of every arena span (lib.rs:111-146)
  heap,        \* ThreadHeap of every thread (lib.rs:214-220)
  cache_heads, \* GlobalCache.heads: packed head per shard (lib.rs:498-500)
  reuse_heads, \* ReuseCache.heads (lib.rs:554-557)
  reuse_counts,\* ReuseCache.counts
  orders,      \* Buddy.orders: free list per order (lib.rs:353-356)
  GLOBAL_ACTIVE_SPAN_COUNTER, \* lib.rs:72
  pc,          \* position of every thread inside the allocator
  reg,         \* locals of the call a thread is executing
  live,        \* live[s][b]: allocations of block b of span s handed out and not freed
  nallocs,     \* alloc calls made so far
  calc,        \* a size-class computation (size_to_class / class_to_size)
  hdr,         \* SpanHeader.kind, .order, .class of every arena span (lib.rs:121-127)
  large,       \* large[s]: pointers span s + 128 handed out by alloc_large and not freed
  huge         \* the mappings of alloc_huge not yet unmapped: the address
               \* and whether the request was over-aligned

\* The state of the large and huge paths.
xVars == <<hdr, large, huge>>

vars == <<span, heap, cache_heads, reuse_heads, reuse_counts, orders,
          GLOBAL_ACTIVE_SPAN_COUNTER, pc, reg, live, nallocs, calc, xVars>>

allocVars == <<span, heap, cache_heads, reuse_heads, reuse_counts, orders,
               GLOBAL_ACTIVE_SPAN_COUNTER, pc, reg, live, nallocs, xVars>>

\* A SpanHeader before anything was written to it (untouched mapped memory is zero).
SpanHeader0 ==
  [bump |-> 0, hot_block |-> NULL, local_free |-> <<>>, remote_free |-> <<>>,
   used |-> 0, owner |-> SPAN_OWNER_ORPHAN, in_reuse |-> FALSE, cache_next |-> NULL]

\* ThreadHeap::new
ThreadHeap_new == [spans |-> NULL, cache |-> <<>>, cpu |-> 0]

\* The call is not the allocation of a realloc.
NoRealloc == [kind |-> "none", ptr |-> NULL, old |-> 0, new |-> 0]

\* route: which way the call came to the large or huge path; miss: the
\* Buddy::alloc of alloc_large returned None; nest: the call was made inside
\* with_heap; res and ptr: what the call returns; re: the block and the sizes
\* of the realloc the call belongs to; copy: the bytes realloc copied; size:
\* the size asked of alloc_large or alloc_huge.
Reg0 == [op |-> "none", sp |-> NULL, blk |-> NULL, i |-> 0, cpu |-> 0,
         snap |-> [ptr |-> NULL, tag |-> 0], nxt |-> NULL, ord |-> 0, o |-> 0,
         idx |-> NULL, route |-> "none", miss |-> FALSE, nest |-> FALSE,
         res |-> "none", ptr |-> NULL, re |-> NoRealloc, copy |-> 0,
         size |-> 0]

\* The small requests of the model are all of one size and so of one class.
SmallRequest == CLASSES_LINEAR_STEP
SmallClass == size_to_class(SmallRequest)

\* The header bytes kind, order and class of untouched memory: SpanKind::Small
\* is 0.
Hdr0 == [kind |-> "Small", order |-> 0, class |-> 0]


Head0 == [ptr |-> NULL, tag |-> 0]

\* Arena::get and Buddy::init: the whole arena is one free block of the top order.
Buddy_init == [o \in Orders |->
                 IF o = BUDDY_MAX_ORDER THEN [head |-> 0, count |-> 1]
                 ELSE [head |-> NULL, count |-> 0]]

AllocInit ==
  /\ span = [s \in Spans |-> SpanHeader0]
  /\ heap = [t \in Threads |-> ThreadHeap_new]
  /\ cache_heads = [sh \in Shards |-> Head0]
  /\ reuse_heads = [sh \in Shards |-> Head0]
  /\ reuse_counts = [sh \in Shards |-> 0]
  /\ orders = Buddy_init
  /\ GLOBAL_ACTIVE_SPAN_COUNTER = 0
  /\ pc = [t \in Threads |-> "idle"]
  /\ reg = [t \in Threads |-> Reg0]
  /\ live = [s \in Spans |-> [b \in Blocks |-> 0]]
  /\ nallocs = 0
  /\ hdr = [s \in Spans |-> Hdr0]
  /\ large = [s \in Spans |-> 0]
  /\ huge = {}

CalcIdle == [first |-> "none", stage |-> 0, x0 |-> 0, x1 |-> 0, x2 |-> 0]

Init == AllocInit /\ calc = CalcIdle

(***************************************************************************)
(* Helpers: the current thread's registers, returns, the cpu_id() call.    *)
(***************************************************************************)
\* cpu_id() & (SHARD_COUNT - 1): any shard.
cpu_id == Shards

Goto(t, label) == pc' = [pc EXCEPT ![t] = label]

\* The public call returns to the program.
Return(t) == /\ pc' = [pc EXCEPT ![t] = "idle"]
             /\ reg' = [reg EXCEPT ![t] = Reg0]

\* The packed head after a successful CAS: new pointer, tag + 1 in 16 bits.
Packed(ptr, old) == [ptr |-> ptr, tag |-> (old.tag + 1) % Pow2(TAG_BITS)]

\* The model stops a stack after MaxTag successful operations on it.
TagRoom(h) == h.tag < MaxTag

(***************************************************************************)
(* alloc_small (lib.rs:984-1072).  One action is one access to shared      *)
(* memory together with the thread-private work around it.                 *)
(***************************************************************************)
\* The block is handed to the caller: used.fetch_add(1) and return.
TakeBlock(t, s, b) ==
  /\ live' = [live EXCEPT ![s][b] = @ + 1]
  /\ Return(t)

\* used.fetch_add(1, Relaxed) (lib.rs:1016, 1036, 1063).
fetch_add_used_skip(u) == u
fetch_add_used(u) == WrapAdd(u, 1)

\* get_span_small, tier 1 (lib.rs:747-755): ThreadHeap::cache_pop, else refresh
\* heap.cpu and start the global-cache scan.
get_span_small_begin(t) ==
  IF Len(heap[t].cache) > 0
  THEN /\ heap' = [heap EXCEPT ![t].cache = SubSeq(@, 1, Len(@) - 1)]
       /\ reg' = [reg EXCEPT ![t] = [Reg0 EXCEPT !.op = "alloc",
                                       !.sp = heap[t].cache[Len(heap[t].cache)]]]
       /\ Goto(t, "is_remote")
  ELSE \E c \in cpu_id :
       /\ heap' = [heap EXCEPT ![t].cpu = c]
       /\ reg' = [reg EXCEPT ![t] = [Reg0 EXCEPT !.op = "alloc"]]
       /\ Goto(t, "gp_load")

\* One iteration of the loop of alloc_small up to its first shared access:
\* hot block, local free list, remote_free.swap(null), then bump or retire.
alloc_small_loop(t) ==
  /\ pc[t] \in {"idle", "wh_tls", "as_loop"}
  /\ pc[t] = "idle" => nallocs < MaxAllocs
  /\ nallocs' = IF pc[t] = "idle" THEN nallocs + 1 ELSE nallocs
  /\ UNCHANGED <<cache_heads, reuse_heads, reuse_counts, orders,
                 GLOBAL_ACTIVE_SPAN_COUNTER, calc, xVars>>
  /\ LET s == heap[t].spans IN
     IF s = NULL
     THEN get_span_small_begin(t) /\ UNCHANGED <<span, live>>
     ELSE IF span[s].hot_block # NULL
     THEN /\ span' = [span EXCEPT ![s].hot_block = NULL,
                                  ![s].used = fetch_add_used(@)]
          /\ TakeBlock(t, s, span[s].hot_block)
          /\ UNCHANGED heap
     ELSE IF span[s].local_free # <<>>
     THEN /\ span' = [span EXCEPT ![s].local_free = Tail(@),
                                  ![s].used = fetch_add_used(@)]
          /\ TakeBlock(t, s, Head(span[s].local_free))
          /\ UNCHANGED heap
     ELSE IF span[s].remote_free # <<>>
     THEN /\ span' = [span EXCEPT ![s].local_free = span[s].remote_free,
                                  ![s].remote_free = <<>>]
          /\ reg' = [reg EXCEPT ![t].op = "alloc"]
          /\ Goto(t, "as_loop")
          /\ UNCHANGED <<heap, live>>
     ELSE /\ reg' = [reg EXCEPT ![t].op = "alloc"]
          /\ Goto(t, "as_bump")
          /\ UNCHANGED <<span, heap, live>>

\* Bump allocation (lib.rs:1058-1065), else the span has no block left and
\* is retired (lib.rs:1067-1069).
alloc_small_bump(t) ==
  /\ pc[t] = "as_bump"
  /\ LET s == heap[t].spans IN
     IF span[s].bump + 1 <= Capacity
     THEN /\ span' = [span EXCEPT ![s].bump = @ + 1,
                                  ![s].used = fetch_add_used(@)]
          /\ TakeBlock(t, s, span[s].bump)
          /\ UNCHANGED heap
     ELSE /\ heap' = [heap EXCEPT ![t].spans = NULL]
          /\ reg' = [reg EXCEPT ![t] = [Reg0 EXCEPT !.op = "alloc", !.sp = s]]
          /\ Goto(t, "rt_publish")
          /\ UNCHANGED <<span, live>>
  /\ UNCHANGED <<cache_heads, reuse_heads, reuse_counts, orders,
                 GLOBAL_ACTIVE_SPAN_COUNTER, nallocs, calc, xVars>>

(***************************************************************************)
(* get_span_small, tiers 2-4 (lib.rs:754-827), with GlobalCache::pop,      *)
(* ReuseCache::pop and Buddy::alloc.  A pop is two steps: the load of the  *)
(* packed head with the read of the top span's cache_next, and the CAS.    *)
(***************************************************************************)
ShardOf(t) == (heap[t].cpu + reg[t].i) % SHARD_COUNT

\* Arena::global_pop / GlobalCache::pop: load of the head of the next shard.
global_pop_load(t) ==
  /\ pc[t] = "gp_load"
  /\ LET h == cache_heads[ShardOf(t)] IN
     IF h.ptr # NULL
     THEN /\ reg' = [reg EXCEPT ![t].snap = h, ![t].nxt = span[h.ptr].cache_next]
          /\ Goto(t, "gp_cas")
     ELSE IF reg[t].i + 1 < SHARD_COUNT
     THEN /\ reg' = [reg EXCEPT ![t].i = @ + 1]
          /\ UNCHANGED pc
     ELSE /\ reg' = [reg EXCEPT ![t].i = 0]
          /\ Goto(t, "rp_load")
  /\ UNCHANGED <<span, heap, cache_heads, reuse_heads, reuse_counts, orders,
                 GLOBAL_ACTIVE_SPAN_COUNTER, live, nallocs, calc, xVars>>

\* GlobalCache::pop: the CAS of the head; a hit goes to init_span.
global_pop_cas(t) ==
  /\ pc[t] = "gp_cas"
  /\ TagRoom(cache_heads[ShardOf(t)])
  /\ IF cache_heads[ShardOf(t)] = reg[t].snap
     THEN /\ cache_heads' = [cache_heads EXCEPT
                               ![ShardOf(t)] = Packed(reg[t].nxt, reg[t].snap)]
          /\ reg' = [reg EXCEPT ![t].sp = reg[t].snap.ptr, ![t].i = 0,
                                ![t].snap = Head0, ![t].nxt = NULL]
          /\ Goto(t, "is_remote")
     ELSE /\ reg' = [reg EXCEPT ![t].snap = Head0, ![t].nxt = NULL]
          /\ Goto(t, "gp_load")
          /\ UNCHANGED cache_heads
  /\ UNCHANGED <<span, heap, reuse_heads, reuse_counts, orders,
                 GLOBAL_ACTIVE_SPAN_COUNTER, live, nallocs, calc, xVars>>

\* Arena::reuse_pop / ReuseCache::pop: load of the head of the next shard;
\* when every shard is empty the buddy is asked for order 0.
reuse_pop_load(t) ==
  /\ pc[t] = "rp_load"
  /\ LET h == reuse_heads[ShardOf(t)] IN
     IF h.ptr # NULL
     THEN /\ reg' = [reg EXCEPT ![t].snap = h, ![t].nxt = span[h.ptr].cache_next]
          /\ Goto(t, "rp_cas")
     ELSE IF reg[t].i + 1 < SHARD_COUNT
     THEN /\ reg' = [reg EXCEPT ![t].i = @ + 1]
          /\ UNCHANGED pc
     ELSE /\ reg' = [reg EXCEPT ![t].i = 0, ![t].ord = 0, ![t].o = 0]
          /\ Goto(t, "ba_pop")
  /\ UNCHANGED <<span, heap, cache_heads, reuse_heads, reuse_counts, orders,
                 GLOBAL_ACTIVE_SPAN_COUNTER, live, nallocs, calc, xVars>>

\* ReuseCache::pop: the CAS of the head.
reuse_pop_cas(t) ==
  /\ pc[t] = "rp_cas"
  /\ TagRoom(reuse_heads[ShardOf(t)])
  /\ IF reuse_heads[ShardOf(t)] = reg[t].snap
     THEN /\ reuse_heads' = [reuse_heads EXCEPT
                               ![ShardOf(t)] = Packed(reg[t].nxt, reg[t].snap)]
          /\ reg' = [reg EXCEPT ![t].sp = reg[t].snap.ptr,
                                ![t].snap = Head0, ![t].nxt = NULL]
          /\ Goto(t, "rp_count")
     ELSE /\ reg' = [reg EXCEPT ![t].snap = Head0, ![t].nxt = NULL]
          /\ Goto(t, "rp_load")
          /\ UNCHANGED reuse_heads
  /\ UNCHANGED <<span, heap, cache_heads, reuse_counts, orders,
                 GLOBAL_ACTIVE_SPAN_COUNTER, live, nallocs, calc, xVars>>

\* ReuseCache::pop: counts.fetch_sub(1) after the CAS (usize, wrapping).
reuse_pop_count(t) ==
  /\ pc[t] = "rp_count"
  /\ reuse_counts' = [reuse_counts EXCEPT ![ShardOf(t)] = WrapSub(@, 1)]
  /\ reg' = [reg EXCEPT ![t].i = 0]
  /\ Goto(t, "rp_claim")
  /\ UNCHANGED <<span, heap, cache_heads, reuse_heads, orders,
                 GLOBAL_ACTIVE_SPAN_COUNTER, live, nallocs, calc, xVars>>

\* The claim of a reuse-cache candidate: CAS of owner from orphan to tid
\* (lib.rs:769-782); on failure the scan restarts.
\* Mutant of claim: the owner is stored without comparing it with orphan.
claim_any(t) ==
  /\ pc[t] = "rp_claim"
  /\ span' = [span EXCEPT ![reg[t].sp].owner = t]
  /\ Goto(t, "rp_clear")
  /\ UNCHANGED reg
  /\ UNCHANGED <<heap, cache_heads, reuse_heads, reuse_counts, orders,
                 GLOBAL_ACTIVE_SPAN_COUNTER, live, nallocs, calc, xVars>>

claim(t) ==
  /\ pc[t] = "rp_claim"
  /\ IF span[reg[t].sp].owner = SPAN_OWNER_ORPHAN
     THEN /\ span' = [span EXCEPT ![reg[t].sp].owner = t]
          /\ Goto(t, "rp_clear")
          /\ UNCHANGED reg
     ELSE /\ reg' = [reg EXCEPT ![t].sp = NULL]
          /\ Goto(t, "rp_load")
          /\ UNCHANGED span
  /\ UNCHANGED <<heap, cache_heads, reuse_heads, reuse_counts, orders,
                 GLOBAL_ACTIVE_SPAN_COUNTER, live, nallocs, calc, xVars>>

\* in_reuse.store(false) after the claim (lib.rs:785).
claim_clear(t) ==
  /\ pc[t] = "rp_clear"
  /\ span' = [span EXCEPT ![reg[t].sp].in_reuse = FALSE]
  /\ Goto(t, "rp_used")
  /\ UNCHANGED <<heap, reg, cache_heads, reuse_heads, reuse_counts, orders,
                 GLOBAL_ACTIVE_SPAN_COUNTER, live, nallocs, calc, xVars>>

\* used.load (lib.rs:788): a fully free span is initialised, another drained.
claim_used(t) ==
  /\ pc[t] = "rp_used"
  /\ Goto(t, IF span[reg[t].sp].used = 0 THEN "is_remote" ELSE "rp_drain")
  /\ UNCHANGED <<span, heap, reg, cache_heads, reuse_heads, reuse_counts, orders,
                 GLOBAL_ACTIVE_SPAN_COUNTER, live, nallocs, calc, xVars>>

\* remote_free.swap(null) into local_free, hot_block cleared (lib.rs:792-806).
claim_drain(t) ==
  /\ pc[t] = "rp_drain"
  /\ span' = [span EXCEPT ![reg[t].sp].local_free = span[reg[t].sp].remote_free,
                          ![reg[t].sp].remote_free = <<>>,
                          ![reg[t].sp].hot_block = NULL]
  /\ Goto(t, "rp_owner")
  /\ UNCHANGED <<heap, reg, cache_heads, reuse_heads, reuse_counts, orders,
                 GLOBAL_ACTIVE_SPAN_COUNTER, live, nallocs, calc, xVars>>

\* owner.store(tid) (lib.rs:807).
claim_owner(t) ==
  /\ pc[t] = "rp_owner"
  /\ span' = [span EXCEPT ![reg[t].sp].owner = t]
  /\ Goto(t, "rp_clear2")
  /\ UNCHANGED <<heap, reg, cache_heads, reuse_heads, reuse_counts, orders,
                 GLOBAL_ACTIVE_SPAN_COUNTER, live, nallocs, calc, xVars>>

\* in_reuse.store(false) (lib.rs:808); the span becomes the active span
\* (lib.rs:994).
claim_done(t) ==
  /\ pc[t] = "rp_clear2"
  /\ span' = [span EXCEPT ![reg[t].sp].in_reuse = FALSE]
  /\ heap' = [heap EXCEPT ![t].spans = reg[t].sp]
  /\ reg' = [reg EXCEPT ![t] = [Reg0 EXCEPT !.op = "alloc"]]
  /\ Goto(t, "as_loop")
  /\ UNCHANGED <<cache_heads, reuse_heads, reuse_counts, orders,
                 GLOBAL_ACTIVE_SPAN_COUNTER, live, nallocs, calc, xVars>>

\* The spans reachable from head pointer h through cache_next, as a sequence
\* (cut after n links: a corrupted stack may loop).
RECURSIVE Chain(_, _)
Chain(h, n) == IF h = NULL \/ n = 0 THEN <<>>
               ELSE <<h>> \o Chain(span[h].cache_next, n - 1)

ChainLimit == SPANS_PER_ARENA + 1

InSeq(x, q) == \E k \in 1..Len(q) : q[k] = x
Occurrences(x, q) == Cardinality({k \in 1..Len(q) : q[k] = x})

(***************************************************************************)
(* Buddy::alloc (lib.rs:435-463).  Each lock .. unlock section is one      *)
(* step: the spinlock makes it atomic for every other user of that list.   *)
(***************************************************************************)
pop_locked_keep(o) == orders

\* Buddy::pop_locked (lib.rs:395-404): the list of order o without its head.
pop_locked(o) ==
  [orders EXCEPT ![o] = [head |-> span[orders[o].head].cache_next,
                         count |-> orders[o].count - 1]]

\* Mutant of push_locked_orders: the pushed block is not linked.
push_locked_orders_none(idx, o) == orders
\* Buddy::push_locked (lib.rs:384-390): idx becomes the head of order o.
push_locked_orders(idx, o) ==
  [orders EXCEPT ![o] = [head |-> idx, count |-> orders[o].count + 1]]

push_locked_span(idx, o) ==
  [span EXCEPT ![idx].cache_next = orders[o].head]

\* Pop at the requested order, then at each higher order (lib.rs:436-450);
\* None when every order misses (lib.rs:462).  For a small request
\* get_span_small returns null, alloc_small returns None, and Allocator::alloc
\* goes on to alloc_large with the same size (lib.rs:1242-1254), which asks
\* the buddy for order 0; for alloc_large the miss leads to alloc_huge
\* (lib.rs:1159-1161).
buddy_alloc_pop(t) ==
  /\ pc[t] = "ba_pop"
  /\ LET o == reg[t].o IN
     IF orders[o].head # NULL
     THEN /\ orders' = pop_locked(o)
          /\ reg' = [reg EXCEPT ![t].idx = orders[o].head,
                                ![t].o = IF o > reg[t].ord THEN o - 1 ELSE o]
          /\ Goto(t, IF o > reg[t].ord THEN "ba_split" ELSE "ba_count")
     ELSE IF o < BUDDY_MAX_ORDER
     THEN /\ reg' = [reg EXCEPT ![t].o = o + 1]
          /\ UNCHANGED <<pc, orders>>
     ELSE IF reg[t].op = "alloc"
     THEN /\ reg' = [reg EXCEPT ![t] = [Reg0 EXCEPT
                        !.op = "large", !.route = "small",
                            !.size = SmallRequest]]
          /\ UNCHANGED <<pc, orders>>
     ELSE /\ reg' = [reg EXCEPT ![t].op = "huge", ![t].miss = TRUE,
                                ![t].o = 0, ![t].ord = 0]
          /\ Goto(t, "ah_mmap")
          /\ UNCHANGED orders
  /\ UNCHANGED <<span, heap, cache_heads, reuse_heads, reuse_counts,
                 GLOBAL_ACTIVE_SPAN_COUNTER, live, nallocs, calc, xVars>>

\* The split loop (lib.rs:451-456): the upper half goes back at each order
\* from o - 1 down to the requested one.
buddy_alloc_split(t) ==
  /\ pc[t] = "ba_split"
  /\ LET split == reg[t].o
         buddy_idx == reg[t].idx + Pow2(split) IN
     /\ span' = push_locked_span(buddy_idx, split)
     /\ orders' = push_locked_orders(buddy_idx, split)
     /\ IF split > reg[t].ord
        THEN /\ reg' = [reg EXCEPT ![t].o = split - 1]
             /\ UNCHANGED pc
        ELSE /\ Goto(t, "ba_count")
             /\ UNCHANGED reg
  /\ UNCHANGED <<heap, cache_heads, reuse_heads, reuse_counts,
                 GLOBAL_ACTIVE_SPAN_COUNTER, live, nallocs, calc, xVars>>

\* GLOBAL_ACTIVE_SPAN_COUNTER.fetch_add(1 << order) (lib.rs:441, 457).
fetch_add_one(order) == WrapAdd(GLOBAL_ACTIVE_SPAN_COUNTER, 1)
fetch_add_order(order) == WrapAdd(GLOBAL_ACTIVE_SPAN_COUNTER, Pow2(order))

buddy_alloc_count(t) ==
  /\ pc[t] = "ba_count"
  /\ GLOBAL_ACTIVE_SPAN_COUNTER' = fetch_add_order(reg[t].ord)
  /\ reg' = [reg EXCEPT ![t].sp = reg[t].idx, ![t].idx = NULL, ![t].o = 0]
  /\ Goto(t, IF reg[t].op = "large" THEN "al_init" ELSE "ba_used")
  /\ UNCHANGED <<span, heap, cache_heads, reuse_heads, reuse_counts, orders,
                 live, nallocs, calc, xVars>>

\* get_span_small, tier 4 (lib.rs:820-823): used.store(0) on the fresh span.
fresh_span_used(t) ==
  /\ pc[t] = "ba_used"
  /\ span' = [span EXCEPT ![reg[t].sp].used = 0]
  /\ Goto(t, "is_remote")
  /\ UNCHANGED <<heap, reg, cache_heads, reuse_heads, reuse_counts, orders,
                 GLOBAL_ACTIVE_SPAN_COUNTER, live, nallocs, calc, xVars>>

(***************************************************************************)
(* init_span (lib.rs:962-982), in the order of its stores.                 *)
(***************************************************************************)
\* bump, bump_end, hot_block, local_free, then remote_free.store(null).
\* used is not written.
\* Mutant of init_span_fields: used is reset too.
init_span_fields_reset_used(s) ==
  [span EXCEPT ![s].bump = 0, ![s].hot_block = NULL, ![s].local_free = <<>>,
               ![s].remote_free = <<>>, ![s].used = 0]

init_span_fields(s) ==
  [span EXCEPT ![s].bump = 0, ![s].hot_block = NULL, ![s].local_free = <<>>,
               ![s].remote_free = <<>>]

init_span_remote(t) ==
  /\ pc[t] = "is_remote"
  /\ span' = init_span_fields(reg[t].sp)
  /\ Goto(t, "is_owner")
  /\ UNCHANGED <<heap, reg, cache_heads, reuse_heads, reuse_counts, orders,
                 GLOBAL_ACTIVE_SPAN_COUNTER, live, nallocs, calc, xVars>>

\* owner.store(tid, Release).
init_span_owner(t) ==
  /\ pc[t] = "is_owner"
  /\ span' = [span EXCEPT ![reg[t].sp].owner = t]
  /\ Goto(t, "is_rest")
  /\ UNCHANGED <<heap, reg, cache_heads, reuse_heads, reuse_counts, orders,
                 GLOBAL_ACTIVE_SPAN_COUNTER, live, nallocs, calc, xVars>>

\* in_reuse.store(false), class, kind = Small, order = 0 and cache_next =
\* null (lib.rs:969-977); back in alloc_small the span becomes the active
\* span (lib.rs:994).
init_span_rest(t) ==
  /\ pc[t] = "is_rest"
  /\ span' = [span EXCEPT ![reg[t].sp].in_reuse = FALSE,
                          ![reg[t].sp].cache_next = NULL]
  /\ hdr' = [hdr EXCEPT ![reg[t].sp] =
                [kind |-> "Small", order |-> 0, class |-> SmallClass]]
  /\ heap' = [heap EXCEPT ![t].spans = reg[t].sp]
  /\ reg' = [reg EXCEPT ![t] = [Reg0 EXCEPT !.op = "alloc"]]
  /\ Goto(t, "as_loop")
  /\ UNCHANGED <<cache_heads, reuse_heads, reuse_counts, orders,
                 GLOBAL_ACTIVE_SPAN_COUNTER, live, nallocs, calc,
                 large, huge>>

(***************************************************************************)
(* Stack pushes.  A push is the successful iteration of its CAS loop: the  *)
(* head it installs over is the head it read (lib.rs:529-547, 598-615).    *)
(***************************************************************************)
\* GlobalCache::push / Arena::global_push at shard sh.
global_push_heads(sh, s) ==
  [cache_heads EXCEPT ![sh] = Packed(s, cache_heads[sh])]

global_push_span(sh, s) ==
  [span EXCEPT ![s].cache_next = cache_heads[sh].ptr]

\* The thread heap is destroyed: the thread is gone.
Dead(t) ==
  /\ pc' = [pc EXCEPT ![t] = "dead"]
  /\ reg' = [reg EXCEPT ![t] = Reg0]

\* ThreadHeap::drop, the flush loop (lib.rs:269-284) over cache[0..cache_len].
FlushBegin(t, cache) ==
  IF Len(cache) > 0
  THEN /\ reg' = [reg EXCEPT ![t] = [Reg0 EXCEPT !.op = "exit", !.sp = cache[1]]]
       /\ Goto(t, "dr_owner")
  ELSE Dead(t)

\* retire_small_span returns: to the loop of alloc_small (lib.rs:1069) or to
\* the flush loop of ThreadHeap::drop (lib.rs:265).
RetireReturn(t, cache) ==
  IF reg[t].op = "alloc"
  THEN /\ reg' = [reg EXCEPT ![t] = [Reg0 EXCEPT !.op = "alloc"]]
       /\ Goto(t, "as_loop")
  ELSE FlushBegin(t, cache)

\* Arena::reuse_push returns: to free_small (lib.rs:1107) or to the end of
\* retire_small_span (lib.rs:874).
ReusePushReturn(t) ==
  IF reg[t].op = "free"
  THEN /\ Goto(t, "fs_sub")
       /\ UNCHANGED reg
  ELSE RetireReturn(t, heap[t].cache)

(***************************************************************************)
(* retire_small_span (lib.rs:830-876).                                     *)
(***************************************************************************)
\* hot_block and local_free spliced into one list, the hot block first
\* (lib.rs:838-844).
PublishList(s) ==
  (IF span[s].hot_block # NULL THEN <<span[s].hot_block>> ELSE <<>>)
    \o span[s].local_free

\* push_remote_list (lib.rs:881-898): the list goes in front of remote_free.
\* Mutant of push_remote_list: the published list is lost.
push_remote_list_drop(remote, list) == remote
push_remote_list(remote, list) == list \o remote

\* Publish the local free lists (lib.rs:837-851).
retire_publish(t) ==
  /\ pc[t] = "rt_publish"
  /\ LET s == reg[t].sp IN
     span' = [span EXCEPT ![s].hot_block = NULL, ![s].local_free = <<>>,
                ![s].remote_free = IF PublishList(s) # <<>>
                                   THEN push_remote_list(@, PublishList(s))
                                   ELSE @]
  /\ Goto(t, "rt_orphan")
  /\ UNCHANGED <<heap, reg, cache_heads, reuse_heads, reuse_counts, orders,
                 GLOBAL_ACTIVE_SPAN_COUNTER, live, nallocs, calc, xVars>>

\* owner.store(SPAN_OWNER_ORPHAN, Release) (lib.rs:853).
retire_orphan(t) ==
  /\ pc[t] = "rt_orphan"
  /\ span' = [span EXCEPT ![reg[t].sp].owner = SPAN_OWNER_ORPHAN]
  /\ Goto(t, "rt_used")
  /\ UNCHANGED <<heap, reg, cache_heads, reuse_heads, reuse_counts, orders,
                 GLOBAL_ACTIVE_SPAN_COUNTER, live, nallocs, calc, xVars>>

\* used.load(Acquire) == 0 (lib.rs:857).
retire_used(t) ==
  /\ pc[t] = "rt_used"
  /\ Goto(t, IF span[reg[t].sp].used = 0 THEN "rt_clear_reuse" ELSE "rt_remote")
  /\ UNCHANGED <<span, heap, reg, cache_heads, reuse_heads, reuse_counts, orders,
                 GLOBAL_ACTIVE_SPAN_COUNTER, live, nallocs, calc, xVars>>

\* in_reuse.store(false) (lib.rs:859).
retire_clear_reuse(t) ==
  /\ pc[t] = "rt_clear_reuse"
  /\ span' = [span EXCEPT ![reg[t].sp].in_reuse = FALSE]
  /\ Goto(t, "rt_clear_remote")
  /\ UNCHANGED <<heap, reg, cache_heads, reuse_heads, reuse_counts, orders,
                 GLOBAL_ACTIVE_SPAN_COUNTER, live, nallocs, calc, xVars>>

\* remote_free.store(null) (lib.rs:860).
retire_clear_remote(t) ==
  /\ pc[t] = "rt_clear_remote"
  /\ span' = [span EXCEPT ![reg[t].sp].remote_free = <<>>]
  /\ Goto(t, "rt_active")
  /\ UNCHANGED <<heap, reg, cache_heads, reuse_heads, reuse_counts, orders,
                 GLOBAL_ACTIVE_SPAN_COUNTER, live, nallocs, calc, xVars>>

\* The load of the active-span counter and ThreadHeap::cache_push
\* (lib.rs:863-866, 243-252).
retire_cache(t) ==
  /\ pc[t] = "rt_active"
  /\ IF /\ ~UGt(GLOBAL_ACTIVE_SPAN_COUNTER, MAX_GLOBAL_ACTIVE_SPANS)
        /\ Len(heap[t].cache) < THREAD_LOCAL_CACHE_SIZE
     THEN /\ heap' = [heap EXCEPT ![t].cache = Append(@, reg[t].sp)]
          /\ RetireReturn(t, Append(heap[t].cache, reg[t].sp))
     ELSE /\ Goto(t, "rt_gpush")
          /\ UNCHANGED <<heap, reg>>
  /\ UNCHANGED <<span, cache_heads, reuse_heads, reuse_counts, orders,
                 GLOBAL_ACTIVE_SPAN_COUNTER, live, nallocs, calc, xVars>>

\* global_push(heap.cpu, class, span) (lib.rs:868).
retire_global_push(t) ==
  /\ pc[t] = "rt_gpush"
  /\ TagRoom(cache_heads[heap[t].cpu])
  /\ span' = global_push_span(heap[t].cpu, reg[t].sp)
  /\ cache_heads' = global_push_heads(heap[t].cpu, reg[t].sp)
  /\ RetireReturn(t, heap[t].cache)
  /\ UNCHANGED <<heap, reuse_heads, reuse_counts, orders,
                 GLOBAL_ACTIVE_SPAN_COUNTER, live, nallocs, calc, xVars>>

\* Partially used: remote_free.load non-null leads to reuse_push
\* (lib.rs:873-875).
retire_remote(t) ==
  /\ pc[t] = "rt_remote"
  /\ IF span[reg[t].sp].remote_free # <<>>
     THEN /\ reg' = [reg EXCEPT ![t].cpu = heap[t].cpu]
          /\ Goto(t, "rup_active")
     ELSE RetireReturn(t, heap[t].cache)
  /\ UNCHANGED <<span, heap, cache_heads, reuse_heads, reuse_counts, orders,
                 GLOBAL_ACTIVE_SPAN_COUNTER, live, nallocs, calc, xVars>>

(***************************************************************************)
(* Arena::reuse_push (lib.rs:723-742) and ReuseCache::push (lib.rs:590-616)*)
(***************************************************************************)
\* The gate on the active-span counter (lib.rs:724-726).
reuse_push_active(t) ==
  /\ pc[t] = "rup_active"
  /\ IF UGt(GLOBAL_ACTIVE_SPAN_COUNTER, MAX_GLOBAL_ACTIVE_SPANS)
     THEN ReusePushReturn(t)
     ELSE Goto(t, "rup_swap") /\ UNCHANGED reg
  /\ UNCHANGED <<span, heap, cache_heads, reuse_heads, reuse_counts, orders,
                 GLOBAL_ACTIVE_SPAN_COUNTER, live, nallocs, calc, xVars>>

\* in_reuse.swap(true) (lib.rs:728-731).
reuse_push_swap(t) ==
  /\ pc[t] = "rup_swap"
  /\ span' = [span EXCEPT ![reg[t].sp].in_reuse = TRUE]
  /\ IF span[reg[t].sp].in_reuse
     THEN ReusePushReturn(t)
     ELSE Goto(t, "rup_owner") /\ UNCHANGED reg
  /\ UNCHANGED <<heap, cache_heads, reuse_heads, reuse_counts, orders,
                 GLOBAL_ACTIVE_SPAN_COUNTER, live, nallocs, calc, xVars>>

\* The owner is read again (lib.rs:734-737).
reuse_push_owner(t) ==
  /\ pc[t] = "rup_owner"
  /\ Goto(t, IF span[reg[t].sp].owner # SPAN_OWNER_ORPHAN
             THEN "rup_undo" ELSE "rup_count")
  /\ UNCHANGED <<span, heap, reg, cache_heads, reuse_heads, reuse_counts, orders,
                 GLOBAL_ACTIVE_SPAN_COUNTER, live, nallocs, calc, xVars>>

\* in_reuse.store(false) when the push is given up (lib.rs:735, 740).
reuse_push_undo(t) ==
  /\ pc[t] = "rup_undo"
  /\ span' = [span EXCEPT ![reg[t].sp].in_reuse = FALSE]
  /\ ReusePushReturn(t)
  /\ UNCHANGED <<heap, cache_heads, reuse_heads, reuse_counts, orders,
                 GLOBAL_ACTIVE_SPAN_COUNTER, live, nallocs, calc, xVars>>

\* ReuseCache::push, the limit check (lib.rs:594-596), called from
\* reuse_push (lib.rs:739) and from free_small (lib.rs:1132).
ReuseCache_push_check(t) ==
  /\ pc[t] \in {"rup_count", "fs_count"}
  /\ IF UGe(reuse_counts[reg[t].cpu], REUSE_CACHE_LIMIT)
     THEN Goto(t, IF pc[t] = "rup_count" THEN "rup_undo" ELSE "fs_gpush")
     ELSE Goto(t, IF pc[t] = "rup_count" THEN "rup_cas" ELSE "fs_cas")
  /\ UNCHANGED <<span, heap, reg, cache_heads, reuse_heads, reuse_counts, orders,
                 GLOBAL_ACTIVE_SPAN_COUNTER, live, nallocs, calc, xVars>>

\* ReuseCache::push, the CAS that links the span (lib.rs:599-611).
ReuseCache_push_cas(t) ==
  /\ pc[t] \in {"rup_cas", "fs_cas"}
  /\ TagRoom(reuse_heads[reg[t].cpu])
  /\ span' = [span EXCEPT ![reg[t].sp].cache_next = reuse_heads[reg[t].cpu].ptr]
  /\ reuse_heads' = [reuse_heads EXCEPT
                       ![reg[t].cpu] = Packed(reg[t].sp, reuse_heads[reg[t].cpu])]
  /\ Goto(t, IF pc[t] = "rup_cas" THEN "rup_inc" ELSE "fs_inc")
  /\ UNCHANGED <<heap, reg, cache_heads, reuse_counts, orders,
                 GLOBAL_ACTIVE_SPAN_COUNTER, live, nallocs, calc, xVars>>

\* ReuseCache::push, count.fetch_add(1) (lib.rs:612).
ReuseCache_push_count(t) ==
  /\ pc[t] \in {"rup_inc", "fs_inc"}
  /\ reuse_counts' = [reuse_counts EXCEPT ![reg[t].cpu] = WrapAdd(@, 1)]
  /\ IF pc[t] = "rup_inc" THEN ReusePushReturn(t) ELSE Return(t)
  /\ UNCHANGED <<span, heap, cache_heads, reuse_heads, orders,
                 GLOBAL_ACTIVE_SPAN_COUNTER, live, nallocs, calc, xVars>>

(***************************************************************************)
(* free_small (lib.rs:1074-1140).  The program frees a pointer it holds,   *)
(* once, from any running thread.                                          *)
(***************************************************************************)
\* The local free (lib.rs:1079-1087): p into hot_block, a displaced hot
\* block in front of local_free.
local_free_push(s, b) ==
  [span EXCEPT ![s].hot_block = b,
               ![s].local_free = IF span[s].hot_block # NULL
                                 THEN <<span[s].hot_block>> \o @ ELSE @]

\* Entry and owner.load (lib.rs:1076-1079).
free_small_begin(t) ==
  /\ pc[t] = "idle"
  /\ \E s \in Spans, b \in Blocks :
       /\ live[s][b] > 0
       /\ live' = [live EXCEPT ![s][b] = @ - 1]
       /\ IF span[s].owner = t
          THEN /\ span' = local_free_push(s, b)
               /\ Goto(t, "fs_sub")
          ELSE /\ Goto(t, "fs_push")
               /\ UNCHANGED span
       /\ reg' = [reg EXCEPT ![t] = [Reg0 EXCEPT !.op = "free", !.sp = s, !.blk = b]]
  /\ UNCHANGED <<heap, cache_heads, reuse_heads, reuse_counts, orders,
                 GLOBAL_ACTIVE_SPAN_COUNTER, nallocs, calc, xVars>>

\* The remote free (lib.rs:1090-1101): CAS push of the block.
remote_free_push_hot(s, b) == [span EXCEPT ![s].hot_block = b]
remote_free_push(s, b) == [span EXCEPT ![s].remote_free = <<b>> \o @]

free_small_remote(t) ==
  /\ pc[t] = "fs_push"
  /\ span' = remote_free_push(reg[t].sp, reg[t].blk)
  /\ Goto(t, "fs_owner")
  /\ UNCHANGED <<heap, reg, cache_heads, reuse_heads, reuse_counts, orders,
                 GLOBAL_ACTIVE_SPAN_COUNTER, live, nallocs, calc, xVars>>

\* owner.load after the push: an orphan span goes to reuse_push with the
\* current cpu (lib.rs:1104-1109).
free_small_orphan(t) ==
  /\ pc[t] = "fs_owner"
  /\ IF span[reg[t].sp].owner = SPAN_OWNER_ORPHAN
     THEN \E c \in cpu_id : /\ reg' = [reg EXCEPT ![t].cpu = c]
                            /\ Goto(t, "rup_active")
     ELSE Goto(t, "fs_sub") /\ UNCHANGED reg
  /\ UNCHANGED <<span, heap, cache_heads, reuse_heads, reuse_counts, orders,
                 GLOBAL_ACTIVE_SPAN_COUNTER, live, nallocs, calc, xVars>>

\* used.fetch_sub(1, Release), wrapping in 32 bits (lib.rs:1113).
fetch_sub_used(u) == WrapSub(u, 1)

free_small_sub(t) ==
  /\ pc[t] = "fs_sub"
  /\ span' = [span EXCEPT ![reg[t].sp].used = fetch_sub_used(@)]
  /\ IF span[reg[t].sp].used = 1
     THEN Goto(t, "fs_owner2") /\ UNCHANGED reg
     ELSE Return(t)
  /\ UNCHANGED <<heap, cache_heads, reuse_heads, reuse_counts, orders,
                 GLOBAL_ACTIVE_SPAN_COUNTER, live, nallocs, calc, xVars>>

\* The span became fully free: owner.load after the fence (lib.rs:1116-1119).
free_small_last(t) ==
  /\ pc[t] = "fs_owner2"
  /\ IF span[reg[t].sp].owner = SPAN_OWNER_ORPHAN
     THEN Goto(t, "fs_swap") /\ UNCHANGED reg
     ELSE Return(t)
  /\ UNCHANGED <<span, heap, cache_heads, reuse_heads, reuse_counts, orders,
                 GLOBAL_ACTIVE_SPAN_COUNTER, live, nallocs, calc, xVars>>

\* in_reuse.swap(true) (lib.rs:1121).
free_small_swap(t) ==
  /\ pc[t] = "fs_swap"
  /\ span' = [span EXCEPT ![reg[t].sp].in_reuse = TRUE]
  /\ IF span[reg[t].sp].in_reuse
     THEN Return(t)
     ELSE Goto(t, "fs_owner3") /\ UNCHANGED reg
  /\ UNCHANGED <<heap, cache_heads, reuse_heads, reuse_counts, orders,
                 GLOBAL_ACTIVE_SPAN_COUNTER, live, nallocs, calc, xVars>>

\* The owner is read again; cpu_id() for the push (lib.rs:1123-1130).
free_small_recheck(t) ==
  /\ pc[t] = "fs_owner3"
  /\ IF span[reg[t].sp].owner # SPAN_OWNER_ORPHAN
     THEN Goto(t, "fs_undo") /\ UNCHANGED reg
     ELSE \E c \in cpu_id : /\ reg' = [reg EXCEPT ![t].cpu = c]
                            /\ Goto(t, "fs_count")
  /\ UNCHANGED <<span, heap, cache_heads, reuse_heads, reuse_counts, orders,
                 GLOBAL_ACTIVE_SPAN_COUNTER, live, nallocs, calc, xVars>>

\* The span was claimed: in_reuse.store(false) (lib.rs:1125).
free_small_undo(t) ==
  /\ pc[t] = "fs_undo"
  /\ span' = [span EXCEPT ![reg[t].sp].in_reuse = FALSE]
  /\ Return(t)
  /\ UNCHANGED <<heap, cache_heads, reuse_heads, reuse_counts, orders,
                 GLOBAL_ACTIVE_SPAN_COUNTER, live, nallocs, calc, xVars>>

\* The reuse cache refused the span: global_push (lib.rs:1132-1134).
free_small_global_push(t) ==
  /\ pc[t] = "fs_gpush"
  /\ TagRoom(cache_heads[reg[t].cpu])
  /\ span' = global_push_span(reg[t].cpu, reg[t].sp)
  /\ cache_heads' = global_push_heads(reg[t].cpu, reg[t].sp)
  /\ Return(t)
  /\ UNCHANGED <<heap, reuse_heads, reuse_counts, orders,
                 GLOBAL_ACTIVE_SPAN_COUNTER, live, nallocs, calc, xVars>>

(***************************************************************************)
(* ThreadHeap::drop (lib.rs:255-287): the thread exits.                    *)
(***************************************************************************)
\* The active span is retired, then the cache is flushed.  heap.spans is not
\* read again after this point.
drop_begin(t) ==
  /\ pc[t] = "idle"
  /\ IF heap[t].spans # NULL
     THEN /\ reg' = [reg EXCEPT ![t] = [Reg0 EXCEPT !.op = "exit",
                                          !.sp = heap[t].spans]]
          /\ Goto(t, "rt_publish")
     ELSE FlushBegin(t, heap[t].cache)
  /\ heap' = [heap EXCEPT ![t].spans = NULL]
  /\ UNCHANGED <<span, cache_heads, reuse_heads, reuse_counts, orders,
                 GLOBAL_ACTIVE_SPAN_COUNTER, live, nallocs, calc, xVars>>

\* owner.store(orphan) on a cached span (lib.rs:274-276).
drop_owner(t) ==
  /\ pc[t] = "dr_owner"
  /\ span' = [span EXCEPT ![reg[t].sp].owner = SPAN_OWNER_ORPHAN]
  /\ Goto(t, "dr_reuse")
  /\ UNCHANGED <<heap, reg, cache_heads, reuse_heads, reuse_counts, orders,
                 GLOBAL_ACTIVE_SPAN_COUNTER, live, nallocs, calc, xVars>>

\* in_reuse.store(false) (lib.rs:277).
drop_reuse(t) ==
  /\ pc[t] = "dr_reuse"
  /\ span' = [span EXCEPT ![reg[t].sp].in_reuse = FALSE]
  /\ Goto(t, "dr_remote")
  /\ UNCHANGED <<heap, reg, cache_heads, reuse_heads, reuse_counts, orders,
                 GLOBAL_ACTIVE_SPAN_COUNTER, live, nallocs, calc, xVars>>

\* remote_free.store(null) (lib.rs:278-280).
drop_remote(t) ==
  /\ pc[t] = "dr_remote"
  /\ span' = [span EXCEPT ![reg[t].sp].remote_free = <<>>]
  /\ Goto(t, "dr_gpush")
  /\ UNCHANGED <<heap, reg, cache_heads, reuse_heads, reuse_counts, orders,
                 GLOBAL_ACTIVE_SPAN_COUNTER, live, nallocs, calc, xVars>>

\* global_push(self.cpu, class, cached_span) (lib.rs:282), then the next
\* cached span; after the last one the heap is gone.
drop_global_push(t) ==
  /\ pc[t] = "dr_gpush"
  /\ TagRoom(cache_heads[heap[t].cpu])
  /\ span' = global_push_span(heap[t].cpu, reg[t].sp)
  /\ cache_heads' = global_push_heads(heap[t].cpu, reg[t].sp)
  /\ IF reg[t].i + 1 < Len(heap[t].cache)
     THEN /\ reg' = [reg EXCEPT ![t].i = @ + 1,
                                ![t].sp = heap[t].cache[reg[t].i + 2]]
          /\ Goto(t, "dr_owner")
          /\ UNCHANGED heap
     ELSE /\ Dead(t)
          /\ heap' = [heap EXCEPT ![t] = ThreadHeap_new]
  /\ UNCHANGED <<reuse_heads, reuse_counts, orders,
                 GLOBAL_ACTIVE_SPAN_COUNTER, live, nallocs, calc, xVars>>

(***************************************************************************)
(* The allocator under concurrent threads.                                 *)

(***************************************************************************)
(* The large and huge paths (lib.rs:1146-1231) and their entry through     *)
(* Allocator::alloc (lib.rs:1234-1257).                                    *)
(***************************************************************************)
\* The arena in bytes (lib.rs:17, 28): SPANS_PER_ARENA spans of SPAN_SIZE.
ARENA_SIZE == SPAN_SIZE * SPANS_PER_ARENA

\* usize::div_ceil.
div_ceil(a, b) == (a + b - 1) \div b

\* n.next_power_of_two().trailing_zeros(): the least k with 2^k >= n.
RECURSIVE log2_ceil_from(_, _)
log2_ceil_from(n, k) == IF Pow2(k) >= n THEN k ELSE log2_ceil_from(n, k + 1)
next_power_of_two_trailing_zeros(n) == log2_ceil_from(n, 0)

\* The order alloc_large asks the buddy for (lib.rs:1147-1150).
large_order_no_header(size) ==
  next_power_of_two_trailing_zeros(div_ceil(size, SPAN_SIZE))
large_order(size) ==
  next_power_of_two_trailing_zeros(div_ceil(size + SPAN_HEADER_SIZE, SPAN_SIZE))

\* The pointer alloc_large returns, as an offset from the arena base
\* (lib.rs:1152-1153, 1178).
large_ptr(idx) == idx * SPAN_SIZE + SPAN_HEADER_SIZE

\* The request sizes above the small classes the model draws from: the
\* largest of every order below BUDDY_MAX_ORDER, the routing boundary of
\* Allocator::alloc, whose block is the whole arena, and the first size above
\* it.
LargeSizes ==
  {SPAN_SIZE * Pow2(k) - SPAN_HEADER_SIZE : k \in 0..(BUDDY_MAX_ORDER - 1)}
  \cup {ARENA_SIZE \div 2, ARENA_SIZE \div 2 + 1}

\* The mappings os_mmap can hand out.
Mappings == 1..MaxHuge

\* Allocator::alloc with align <= 16 and a size above the small classes
\* (lib.rs:1241-1254): alloc_large when size <= ARENA_SIZE / 2, else
\* alloc_huge; alloc_large up to its call of Buddy::alloc, or to its call of
\* alloc_huge when the order is above BUDDY_MAX_ORDER (lib.rs:1147-1156).
Allocator_alloc(t, size, re) ==
  /\ pc[t] = "idle"
  /\ nallocs' = nallocs + 1
  /\ IF size <= ARENA_SIZE \div 2 /\ large_order(size) <= BUDDY_MAX_ORDER
     THEN /\ reg' = [reg EXCEPT ![t] = [Reg0 EXCEPT
                       !.op = "large", !.route = "large", !.re = re,
                       !.size = size,
                       !.ord = large_order(size), !.o = large_order(size)]]
          /\ Goto(t, "ba_pop")
     ELSE /\ reg' = [reg EXCEPT ![t] = [Reg0 EXCEPT
                       !.op = "huge", !.re = re, !.size = size,
                       !.route = IF size <= ARENA_SIZE \div 2
                                 THEN "order" ELSE "size"]]
          /\ Goto(t, "ah_mmap")
  /\ UNCHANGED <<span, heap, cache_heads, reuse_heads, reuse_counts, orders,
                 GLOBAL_ACTIVE_SPAN_COUNTER, live, calc, xVars>>

\* The program asks for one of the sizes of LargeSizes.
alloc_large_begin(t) ==
  /\ nallocs < MaxCalls
  /\ \E size \in LargeSizes : Allocator_alloc(t, size, NoRealloc)

\* Allocator::alloc with align > 16 (lib.rs:1237-1239): alloc_huge(size).
Allocator_alloc_aligned(t, re) ==
  /\ pc[t] = "idle"
  /\ nallocs' = nallocs + 1
  /\ reg' = [reg EXCEPT ![t] = [Reg0 EXCEPT !.op = "huge", !.route = "align",
                                           !.re = re]]
  /\ Goto(t, "ah_mmap")
  /\ UNCHANGED <<span, heap, cache_heads, reuse_heads, reuse_counts, orders,
                 GLOBAL_ACTIVE_SPAN_COUNTER, live, calc, xVars>>

\* The program asks for an over-aligned block.
alloc_aligned_begin(t) ==
  /\ nallocs < MaxCalls
  /\ Allocator_alloc_aligned(t, NoRealloc)

\* The header bytes alloc_large writes (lib.rs:1166-1168).
large_header_untouched(order) == Hdr0
large_header(order) ==
  [kind |-> "Large", order |-> order, class |-> LARGE_CLASS]

\* alloc_large after Buddy::alloc returned Some(idx) (lib.rs:1161-1178):
\* the header of span idx and the pointer span + SPAN_HEADER_SIZE.
alloc_large_init(t) ==
  /\ pc[t] = "al_init"
  /\ LET idx == reg[t].sp IN
     /\ hdr' = [hdr EXCEPT ![idx] = large_header(reg[t].ord)]
     /\ span' = [span EXCEPT ![idx].owner = SPAN_OWNER_ORPHAN,
                             ![idx].in_reuse = FALSE,
                             ![idx].used = 0,
                             ![idx].remote_free = <<>>,
                             ![idx].cache_next = NULL]
     /\ large' = [large EXCEPT ![idx] = @ + 1]
     /\ reg' = [reg EXCEPT ![t].res = "large", ![t].ptr = large_ptr(idx)]
  /\ Goto(t, "ret")
  /\ UNCHANGED <<heap, cache_heads, reuse_heads, reuse_counts, orders,
                 GLOBAL_ACTIVE_SPAN_COUNTER, live, nallocs, calc, huge>>

\* What alloc_huge returns for the address raw that os_mmap gave
\* (lib.rs:1188-1190): null when the mapping failed.
huge_result_null(raw) == "null"
huge_result(raw) == IF raw = NULL THEN "null" ELSE "huge"

\* The addresses of the mappings in use.
HugeAddrs == {h.raw : h \in huge}

\* alloc_huge (lib.rs:1181-1212): os_mmap either fails and gives null, or
\* hands out a mapping not in use.
alloc_huge(t) ==
  /\ pc[t] = "ah_mmap"
  /\ \E raw \in {NULL} \cup (Mappings \ HugeAddrs) :
       /\ huge' = IF raw = NULL THEN huge
                  ELSE huge \cup {[raw |-> raw,
                                   aligned |-> reg[t].route = "align"]}
       /\ reg' = [reg EXCEPT ![t].res = huge_result(raw), ![t].ptr = raw]
  /\ Goto(t, "ret")
  /\ UNCHANGED <<span, heap, cache_heads, reuse_heads, reuse_counts, orders,
                 GLOBAL_ACTIVE_SPAN_COUNTER, live, nallocs, calc, hdr, large>>

\* The call on the large or huge path returns reg.res: to the program, to
\* the realloc that made it, or, for a call made inside with_heap, to the
\* thread-local initialisation.
alloc_return(t) ==
  /\ pc[t] = "ret"
  /\ IF reg[t].re # NoRealloc
     THEN Goto(t, "re_copy") /\ UNCHANGED reg
     ELSE /\ pc' = [pc EXCEPT ![t] = IF reg[t].nest THEN "wh_tls" ELSE "idle"]
          /\ reg' = [reg EXCEPT ![t] = IF reg[t].nest
                                       THEN [Reg0 EXCEPT !.op = "alloc"]
                                       ELSE Reg0]
  /\ UNCHANGED <<span, heap, cache_heads, reuse_heads, reuse_counts, orders,
                 GLOBAL_ACTIVE_SPAN_COUNTER, live, nallocs, calc, xVars>>

\* with_heap on a thread whose HEAP is not initialised yet (lib.rs:904-906,
\* 939-945): IN_ALLOC.set(true), then HEAP.with runs the lazy initialiser,
\* during which the runtime may allocate.
with_heap_init(t) ==
  /\ pc[t] = "idle"
  /\ heap[t] = ThreadHeap_new
  /\ nallocs < MaxCalls
  /\ nallocs' = nallocs + 1
  /\ reg' = [reg EXCEPT ![t] = [Reg0 EXCEPT !.op = "alloc"]]
  /\ Goto(t, "wh_tls")
  /\ UNCHANGED <<span, heap, cache_heads, reuse_heads, reuse_counts, orders,
                 GLOBAL_ACTIVE_SPAN_COUNTER, live, calc, xVars>>

\* The thread is inside with_heap: IN_ALLOC is set from lib.rs:943 to
\* lib.rs:950.
IN_ALLOC(t) == pc[t] = "wh_tls" \/ reg[t].nest \/ reg[t].op = "alloc"

\* Allocator::alloc of a small size entered while IN_ALLOC is set: with_heap
\* returns R::default() = None at once (lib.rs:940-942), the if-let of
\* lib.rs:1242-1246 fails, and the call goes on to alloc_large with the
\* same size (lib.rs:1248-1254), which asks the buddy for order 0.
alloc_nested(t) ==
  /\ pc[t] = "wh_tls"
  /\ nallocs < MaxCalls
  /\ nallocs' = nallocs + 1
  /\ reg' = [reg EXCEPT ![t] = [Reg0 EXCEPT
                    !.op = "large", !.route = "guard", !.nest = TRUE,
                    !.size = SmallRequest,
                    !.ord = large_order(SmallRequest),
                    !.o = large_order(SmallRequest)]]
  /\ Goto(t, "ba_pop")
  /\ UNCHANGED <<span, heap, cache_heads, reuse_heads, reuse_counts, orders,
                 GLOBAL_ACTIVE_SPAN_COUNTER, live, calc, xVars>>

\* The pointers of a kind that the program cannot free now: those a call
\* is still returning, and those a realloc in progress was given.
BeingReturned(kind) ==
  {reg[t].ptr : t \in {u \in Threads : /\ pc[u] \in {"ret", "re_copy", "re_free"}
                                       /\ reg[u].res = kind}}
  \cup {reg[t].re.ptr : t \in {u \in Threads : reg[u].re.kind = kind}}

\* Arena::ptr_to_span as a span index.
ptr_to_span(ptr) == ptr \div SPAN_SIZE

\* idx ^ (1 << order) (lib.rs:471).
buddy_of(idx, order) ==
  IF (idx \div Pow2(order)) % 2 = 0 THEN idx + Pow2(order)
                                    ELSE idx - Pow2(order)

\* The free list of order o, head first.
FreeList(o) == Chain(orders[o].head, ChainLimit)

\* Buddy::try_remove_buddy (lib.rs:409-432): whether buddy_idx is on the list
\* of the order, and the list and the links without it.
try_remove_buddy_never(buddy_idx, o) == FALSE
try_remove_buddy_found(buddy_idx, o) == InSeq(buddy_idx, FreeList(o))

\* Mutant of try_remove_buddy_orders: the buddy stays on its list.
try_remove_buddy_orders_keep(buddy_idx, o) == orders
try_remove_buddy_orders(buddy_idx, o) ==
  [orders EXCEPT ![o] =
     [head |-> IF orders[o].head = buddy_idx
               THEN span[buddy_idx].cache_next ELSE orders[o].head,
      count |-> orders[o].count - 1]]

try_remove_buddy_span(buddy_idx, o) ==
  IF orders[o].head = buddy_idx
  THEN span
  ELSE LET prev == CHOOSE p \in Spans :
                     /\ InSeq(p, FreeList(o))
                     /\ span[p].cache_next = buddy_idx
       IN [span EXCEPT ![prev].cache_next = span[buddy_idx].cache_next]

\* Allocator::dealloc of a pointer whose span header says Large
\* (lib.rs:1269-1278), free_large (lib.rs:1214-1217) and Buddy::free up to
\* its loop: GLOBAL_ACTIVE_SPAN_COUNTER.fetch_sub(1 << order) (lib.rs:467).
Allocator_dealloc_large(t, s) ==
  /\ hdr[s].kind = "Large"
  /\ large' = [large EXCEPT ![s] = @ - 1]
  /\ GLOBAL_ACTIVE_SPAN_COUNTER' =
       WrapSub(GLOBAL_ACTIVE_SPAN_COUNTER, Pow2(hdr[s].order))
  /\ reg' = [reg EXCEPT ![t] = [Reg0 EXCEPT !.op = "free", !.idx = s,
                                  !.ord = hdr[s].order]]
  /\ Goto(t, IF hdr[s].order < BUDDY_MAX_ORDER THEN "bf_merge" ELSE "bf_push")
  /\ UNCHANGED <<span, heap, cache_heads, reuse_heads, reuse_counts, orders,
                 live, nallocs, calc, hdr, huge>>

\* The program frees a large block it holds.
free_large(t) ==
  /\ pc[t] = "idle"
  /\ \E s \in Spans :
       /\ large[s] > 0
       /\ large_ptr(s) \notin BeingReturned("large")
       /\ Allocator_dealloc_large(t, s)

\* One iteration of the coalescing loop (lib.rs:470-486): under the lock of
\* the order, take the buddy off the list if it is there; then go on one
\* order up with the lower index, else leave the loop.
buddy_free_merge(t) ==
  /\ pc[t] = "bf_merge"
  /\ LET idx == reg[t].idx
         order == reg[t].ord
         buddy_idx == buddy_of(idx, order) IN
     IF buddy_idx >= SPANS_PER_ARENA
     THEN /\ Goto(t, "bf_push")
          /\ UNCHANGED <<span, orders, reg>>
     ELSE IF try_remove_buddy_found(buddy_idx, order)
     THEN /\ orders' = try_remove_buddy_orders(buddy_idx, order)
          /\ span' = try_remove_buddy_span(buddy_idx, order)
          /\ reg' = [reg EXCEPT ![t].idx = IF idx < buddy_idx THEN idx
                                                             ELSE buddy_idx,
                                ![t].ord = order + 1]
          /\ Goto(t, IF order + 1 < BUDDY_MAX_ORDER THEN "bf_merge"
                                                    ELSE "bf_push")
     ELSE /\ Goto(t, "bf_push")
          /\ UNCHANGED <<span, orders, reg>>
  /\ UNCHANGED <<heap, cache_heads, reuse_heads, reuse_counts,
                 GLOBAL_ACTIVE_SPAN_COUNTER, live, nallocs, calc, xVars>>

\* push_locked(idx, order) under the lock of the final order (lib.rs:488-490).
buddy_free_push(t) ==
  /\ pc[t] = "bf_push"
  /\ span' = push_locked_span(reg[t].idx, reg[t].ord)
  /\ orders' = push_locked_orders(reg[t].idx, reg[t].ord)
  /\ Return(t)
  /\ UNCHANGED <<heap, cache_heads, reuse_heads, reuse_counts,
                 GLOBAL_ACTIVE_SPAN_COUNTER, live, nallocs, calc, xVars>>

\* Allocator::dealloc of a pointer outside the arena (lib.rs:1262-1267) and
\* free_huge (lib.rs:1219-1231): the mapping is unmapped.
Allocator_dealloc_huge(t, raw) ==
  /\ huge' = {h \in huge : h.raw # raw}
  /\ Return(t)
  /\ UNCHANGED <<span, heap, cache_heads, reuse_heads, reuse_counts, orders,
                 GLOBAL_ACTIVE_SPAN_COUNTER, live, nallocs, calc, hdr, large>>

\* The program frees a huge block it holds.
free_huge(t) ==
  /\ pc[t] = "idle"
  /\ \E raw \in HugeAddrs \ BeingReturned("huge") :
       Allocator_dealloc_huge(t, raw)

(***************************************************************************)
(* Allocator::realloc (lib.rs:1287-1320) of a block of the large path, or  *)
(* of an over-aligned block of a small size.                               *)
(***************************************************************************)
\* The same-class test (lib.rs:1303-1310).
realloc_in_place(old_size, new_size) ==
  /\ old_size <= CLASSES_MAX_SIZE
  /\ new_size <= CLASSES_MAX_SIZE
  /\ size_to_class(old_size) = size_to_class(new_size)

\* old_size.min(new_size) (lib.rs:1316).
copy_len_new(old_size, new_size) == new_size
copy_len(old_size, new_size) ==
  IF old_size < new_size THEN old_size ELSE new_size

\* The sizes of the over-aligned layouts the program reallocates between.
AlignedSizes == {40, 48, 200}

\* The layout size of the large block at span s: the largest of its order.
LargeLayoutSize(s) ==
  IF hdr[s].order = BUDDY_MAX_ORDER THEN ARENA_SIZE \div 2
  ELSE SPAN_SIZE * Pow2(hdr[s].order) - SPAN_HEADER_SIZE

\* realloc of a large block to one of the sizes of LargeSizes: never in
\* place; the allocation of the new block begins (lib.rs:1312-1313).
realloc_large_begin(t) ==
  /\ nallocs < MaxCalls
  /\ \E s \in Spans, new_size \in LargeSizes :
       /\ large[s] > 0
       /\ large_ptr(s) \notin BeingReturned("large")
       /\ ~realloc_in_place(LargeLayoutSize(s), new_size)
       /\ Allocator_alloc(t, new_size,
                          [kind |-> "large", ptr |-> large_ptr(s),
                           old |-> LargeLayoutSize(s), new |-> new_size])

\* realloc of an over-aligned block between two small sizes: the same
\* pointer when the sizes are of one class, else the allocation of the new
\* block begins, with the same alignment.
realloc_aligned_begin(t) ==
  /\ pc[t] = "idle"
  /\ \E h \in huge, old_size \in AlignedSizes, new_size \in AlignedSizes :
       LET re == [kind |-> "huge", ptr |-> h.raw,
                  old |-> old_size, new |-> new_size] IN
       /\ h.aligned
       /\ h.raw \notin BeingReturned("huge")
       /\ IF realloc_in_place(old_size, new_size)
          THEN /\ reg' = [reg EXCEPT ![t] = [Reg0 EXCEPT
                            !.op = "realloc", !.re = re,
                            !.res = "same", !.ptr = h.raw]]
               /\ Goto(t, "re_ret")
               /\ UNCHANGED <<span, heap, cache_heads, reuse_heads,
                              reuse_counts, orders,
                              GLOBAL_ACTIVE_SPAN_COUNTER, live, nallocs, calc,
                              xVars>>
          ELSE /\ nallocs < MaxCalls
               /\ Allocator_alloc_aligned(t, re)

\* The allocation returned: null, and realloc returns null (lib.rs:1315,
\* 1319); else copy_nonoverlapping of min(old, new) bytes (lib.rs:1316).
realloc_copy(t) ==
  /\ pc[t] = "re_copy"
  /\ IF reg[t].res = "null"
     THEN /\ Goto(t, "re_ret")
          /\ UNCHANGED reg
     ELSE /\ reg' = [reg EXCEPT ![t].copy = copy_len(reg[t].re.old,
                                                    reg[t].re.new)]
          /\ Goto(t, "re_free")
  /\ UNCHANGED <<span, heap, cache_heads, reuse_heads, reuse_counts, orders,
                 GLOBAL_ACTIVE_SPAN_COUNTER, live, nallocs, calc, xVars>>

\* self.dealloc(ptr, layout) of the old block (lib.rs:1317); realloc returns
\* the new pointer when the dealloc is done.
realloc_dealloc(t) ==
  /\ pc[t] = "re_free"
  /\ IF reg[t].re.kind = "large"
     THEN Allocator_dealloc_large(t, ptr_to_span(reg[t].re.ptr))
     ELSE Allocator_dealloc_huge(t, reg[t].re.ptr)

\* realloc returns the old pointer or null; the old block is as it was.
realloc_return(t) ==
  /\ pc[t] = "re_ret"
  /\ Return(t)
  /\ UNCHANGED <<span, heap, cache_heads, reuse_heads, reuse_counts, orders,
                 GLOBAL_ACTIVE_SPAN_COUNTER, live, nallocs, calc, xVars>>

NextRealloc ==
  \E t \in Threads :
    \/ alloc_large_begin(t)
    \/ alloc_aligned_begin(t)
    \/ buddy_alloc_pop(t)
    \/ buddy_alloc_split(t)
    \/ buddy_alloc_count(t)
    \/ alloc_large_init(t)
    \/ alloc_huge(t)
    \/ alloc_return(t)
    \/ free_large(t)
    \/ buddy_free_merge(t)
    \/ buddy_free_push(t)
    \/ free_huge(t)
    \/ realloc_large_begin(t)
    \/ realloc_aligned_begin(t)
    \/ realloc_copy(t)
    \/ realloc_dealloc(t)
    \/ realloc_return(t)

SpecRealloc == Init /\ [][NextRealloc]_vars

(***************************************************************************)
Next ==
  \E t \in Threads :
    \/ alloc_small_loop(t)
    \/ alloc_small_bump(t)
    \/ global_pop_load(t)
    \/ global_pop_cas(t)
    \/ reuse_pop_load(t)
    \/ reuse_pop_cas(t)
    \/ reuse_pop_count(t)
    \/ claim(t)
    \/ claim_clear(t)
    \/ claim_used(t)
    \/ claim_drain(t)
    \/ claim_owner(t)
    \/ claim_done(t)
    \/ buddy_alloc_pop(t)
    \/ buddy_alloc_split(t)
    \/ buddy_alloc_count(t)
    \/ fresh_span_used(t)
    \/ init_span_remote(t)
    \/ init_span_owner(t)
    \/ init_span_rest(t)
    \/ retire_publish(t)
    \/ retire_orphan(t)
    \/ retire_used(t)
    \/ retire_clear_reuse(t)
    \/ retire_clear_remote(t)
    \/ retire_cache(t)
    \/ retire_global_push(t)
    \/ retire_remote(t)
    \/ reuse_push_active(t)
    \/ reuse_push_swap(t)
    \/ reuse_push_owner(t)
    \/ reuse_push_undo(t)
    \/ ReuseCache_push_check(t)
    \/ ReuseCache_push_cas(t)
    \/ ReuseCache_push_count(t)
    \/ free_small_begin(t)
    \/ free_small_remote(t)
    \/ free_small_orphan(t)
    \/ free_small_sub(t)
    \/ free_small_last(t)
    \/ free_small_swap(t)
    \/ free_small_recheck(t)
    \/ free_small_undo(t)
    \/ free_small_global_push(t)
    \/ drop_begin(t)
    \/ drop_owner(t)
    \/ drop_reuse(t)
    \/ drop_remote(t)
    \/ drop_global_push(t)

Spec == Init /\ [][Next]_vars

(***************************************************************************)
(* The program whose requests are large, huge or over-aligned, besides     *)
(* small allocations that are never freed: the allocation side of the      *)
(* small path together with the large and huge paths.                      *)
(***************************************************************************)
\* Allocator::alloc of a small size in this program, which makes at most
\* MaxCalls allocation calls.
alloc_small_bounded(t) ==
  /\ pc[t] = "idle" => nallocs < MaxCalls
  /\ alloc_small_loop(t)

NextLarge ==
  \E t \in Threads :
    \/ alloc_small_bounded(t)
    \/ alloc_small_bump(t)
    \/ global_pop_load(t)
    \/ reuse_pop_load(t)
    \/ buddy_alloc_pop(t)
    \/ buddy_alloc_split(t)
    \/ buddy_alloc_count(t)
    \/ fresh_span_used(t)
    \/ init_span_remote(t)
    \/ init_span_owner(t)
    \/ init_span_rest(t)
    \/ retire_publish(t)
    \/ retire_orphan(t)
    \/ retire_used(t)
    \/ retire_remote(t)
    \/ alloc_large_begin(t)
    \/ alloc_aligned_begin(t)
    \/ with_heap_init(t)
    \/ alloc_nested(t)
    \/ alloc_large_init(t)
    \/ alloc_huge(t)
    \/ alloc_return(t)
    \/ free_large(t)
    \/ buddy_free_merge(t)
    \/ buddy_free_push(t)
    \/ free_huge(t)

SpecLarge == Init /\ [][NextLarge]_vars

(***************************************************************************)
(* The size-class computations on their own: a request size is mapped to   *)
(* its class and the class to its block size (Allocator::alloc, init_span);*)
(* a class is mapped to its block size and the size back to a class.       *)
(***************************************************************************)
Classes == 0..(CLASSES_COUNT - 1)
SizeInputs == 0..(CLASSES_MAX_SIZE + 1)

InitClass ==
  /\ AllocInit
  /\ \/ \E n \in SizeInputs :
          calc = [first |-> "size", stage |-> 0, x0 |-> n, x1 |-> 0, x2 |-> 0]
     \/ \E c \in Classes :
          calc = [first |-> "class", stage |-> 0, x0 |-> c, x1 |-> 0, x2 |-> 0]

\* The value the next conversion is applied to.
CalcTop == IF calc.stage = 0 THEN calc.x0 ELSE calc.x1

CalcStore(v) ==
  calc' = IF calc.stage = 0 THEN [calc EXCEPT !.stage = 1, !.x1 = v]
          ELSE [calc EXCEPT !.stage = 2, !.x2 = v]

apply_size_to_class ==
  /\ \/ calc.first = "size" /\ calc.stage = 0
     \/ calc.first = "class" /\ calc.stage = 1
  /\ CalcStore(size_to_class(CalcTop))
  /\ UNCHANGED allocVars

apply_class_to_size ==
  /\ \/ calc.first = "class" /\ calc.stage = 0
     \/ calc.first = "size" /\ calc.stage = 1
  /\ CalcStore(class_to_size(CalcTop))
  /\ UNCHANGED allocVars

NextClass == apply_size_to_class \/ apply_class_to_size

SpecClass == InitClass /\ [][NextClass]_vars

(***************************************************************************)
(* Where a span is linked.                                                 *)
(***************************************************************************)
ReuseStack(sh) == Chain(reuse_heads[sh].ptr, ChainLimit)
GlobalStack(sh) == Chain(cache_heads[sh].ptr, ChainLimit)

InReuseCache(s) == \E sh \in Shards : InSeq(s, ReuseStack(sh))
InGlobalCache(s) == \E sh \in Shards : InSeq(s, GlobalStack(sh))
InMiniCache(s) == \E t \in Threads : InSeq(s, heap[t].cache)
IsActive(s) == \E t \in Threads : heap[t].spans = s

\* In how many places span s is held, each link and slot counted: reuse and
\* global stacks, mini-cache slots, active-span slots.
RECURSIVE SumOver(_, _)
SumOver(f, S) == IF S = {} THEN 0
                 ELSE LET x == CHOOSE y \in S : TRUE IN f[x] + SumOver(f, S \ {x})

Places(s) ==
  SumOver([sh \in Shards |-> Occurrences(s, ReuseStack(sh))], Shards)
  + SumOver([sh \in Shards |-> Occurrences(s, GlobalStack(sh))], Shards)
  + SumOver([t \in Threads |-> Occurrences(s, heap[t].cache)], Threads)
  + Cardinality({t \in Threads : heap[t].spans = s})

Quiescent == \A t \in Threads : pc[t] \in {"idle", "dead"}

\* C1: no block is handed out twice: two outstanding allocations never share
\* an address.
C1_NoBlockHandedOutTwice == \A s \in Spans, b \in Blocks : live[s][b] <= 1

\* C2: every span linked in a reuse-cache stack has in_reuse = true and
\* owner = orphan.
C2_ReuseCacheSpansOrphanInReuse ==
  \A s \in Spans : InReuseCache(s) =>
     span[s].in_reuse /\ span[s].owner = SPAN_OWNER_ORPHAN

\* C3: every span linked in a global-cache stack has used = 0 and
\* remote_free = null.
C3_GlobalCacheSpansFree ==
  \A s \in Spans : InGlobalCache(s) =>
     span[s].used = 0 /\ span[s].remote_free = <<>>

\* C4: a span is in at most one of the reuse cache, the global cache, a
\* mini-cache and an active-span slot, and there at most once: it is never
\* pushed while it is still linked or active.
C4_NoDoubleEnqueue == \A s \in Spans : Places(s) <= 1

\* C5: once every operation has returned, in_reuse is true if and only if the
\* span is linked in the reuse cache.
C5_InReuseIffLinked ==
  Quiescent => \A s \in Spans : span[s].in_reuse <=> InReuseCache(s)

\* C6: the active span of a thread is owned by that thread, so no two threads
\* use the same span as their active span.
C6_ActiveSpanOwned ==
  /\ \A t \in Threads : heap[t].spans # NULL => span[heap[t].spans].owner = t
  /\ \A t1, t2 \in Threads :
       t1 # t2 /\ heap[t1].spans # NULL => heap[t1].spans # heap[t2].spans

\* The blocks of span s that are allocated and not yet freed.
LiveBlocks(s) == {b \in Blocks : live[s][b] > 0}

\* C7: in every quiescent state used equals the number of blocks of the span
\* that are allocated and not yet freed, and used never goes below zero.
C7_UsedCountsLiveBlocks ==
  /\ \A s \in Spans : span[s].used >= 0
  /\ Quiescent => \A s \in Spans : span[s].used = Cardinality(LiveBlocks(s))

\* The outstanding pointers: every allocation handed out and not freed.
Outstanding == SumOver([s \in Spans |-> SumOver(live[s], Blocks)], Spans)

\* C8 as stated: the outstanding pointers equal the sum of used over the
\* non-orphaned spans.
C8_OutstandingEqualsUsedOfOwned ==
  Quiescent =>
    Outstanding = SumOver([s \in Spans |->
                    IF span[s].owner # SPAN_OWNER_ORPHAN THEN span[s].used ELSE 0],
                    Spans)

\* C8 amended: the outstanding pointers equal the sum of used over all spans,
\* orphaned or not.
C8_OutstandingEqualsUsedOfAll ==
  Quiescent => Outstanding = SumOver([s \in Spans |-> span[s].used], Spans)

\* A quiescent state in which an orphaned span and an owned span both hold
\* outstanding blocks.
C8_Witness ==
  /\ Quiescent
  /\ \E s1, s2 \in Spans :
       /\ span[s1].owner = SPAN_OWNER_ORPHAN /\ span[s1].used > 0
       /\ span[s2].owner # SPAN_OWNER_ORPHAN /\ span[s2].used > 0
       /\ Outstanding = span[s1].used + span[s2].used

\* A request size that a size class serves.
SmallSize(n) == 0 < n /\ n <= CLASSES_MAX_SIZE

\* C9: class_to_size(size_to_class(n)) >= n for every size 0 < n <= 32704, and
\* size_to_class(class_to_size(c)) = c for every class c.
C9_RoundTrip ==
  calc.stage = 2 =>
    /\ calc.first = "size" /\ SmallSize(calc.x0) => calc.x2 >= calc.x0
    /\ calc.first = "class" => calc.x2 = calc.x0

C9_Witness ==
  \/ calc = [first |-> "size", stage |-> 2, x0 |-> 129, x1 |-> 8, x2 |-> 152]
  \/ calc = [first |-> "class", stage |-> 2, x0 |-> 11, x1 |-> 256, x2 |-> 11]

\* ceil(n / 16) - 1
LinearClass(n) == ((n + 15) \div 16) - 1

\* C10: size_to_class(n) is the smallest class whose block size is at least n:
\* ceil(n/16) - 1 for n <= 128; sizes 1, 16, 17 and 128 get blocks of 16, 16,
\* 32 and 128 bytes, 192 a block of at least 192 bytes, 32704 the top class;
\* size_to_class(0) = 0.
C10_SmallestClass ==
  calc.first = "size" /\ calc.stage >= 1 =>
    LET n == calc.x0
        c == calc.x1
    IN /\ n = 0 => c = 0
       /\ SmallSize(n) =>
            /\ c \in Classes
            /\ class_to_size(c) >= n
            /\ \A c2 \in 0..(c - 1) : class_to_size(c2) < n
       /\ SmallSize(n) /\ n <= 128 => c = LinearClass(n)
       /\ n = CLASSES_MAX_SIZE => c = CLASSES_COUNT - 1
       /\ calc.stage = 2 =>
            /\ n \in {1, 16} => calc.x2 = 16
            /\ n = 17 => calc.x2 = 32
            /\ n = 128 => calc.x2 = 128
            /\ n = 192 => calc.x2 >= 192

C10_Witness ==
  /\ calc.first = "size" /\ calc.stage = 1
  /\ calc.x0 = 257 /\ calc.x1 = 12

(***************************************************************************)
(* A fresh arena, up to ScenarioBlocks allocations of one span each on the *)
(* large path, one call at a time, and then the blocks freed from the      *)
(* highest span index down.                                                *)
(***************************************************************************)
\* The spans whose large block is handed out.
LargeOutstanding == {s \in Spans : large[s] > 0}

SetMax(S) == CHOOSE x \in S : \A y \in S : y <= x

\* The next allocation of the scenario: a request of order 0, made while no
\* call is in progress and no block has been freed.
reverse_alloc(t) ==
  /\ Quiescent
  /\ nallocs < ScenarioBlocks
  /\ Cardinality(LargeOutstanding) = nallocs
  /\ Allocator_alloc(t, SPAN_SIZE - SPAN_HEADER_SIZE, NoRealloc)

\* The next free of the scenario: of the outstanding block with the highest
\* span index.
reverse_free(t) ==
  /\ Quiescent
  /\ LargeOutstanding # {}
  /\ free_large(t)
  /\ reg'[t].idx = SetMax(LargeOutstanding)

NextReverseFree ==
  \E t \in Threads :
    \/ reverse_alloc(t)
    \/ buddy_alloc_pop(t)
    \/ buddy_alloc_split(t)
    \/ buddy_alloc_count(t)
    \/ alloc_large_init(t)
    \/ alloc_return(t)
    \/ reverse_free(t)
    \/ buddy_free_merge(t)
    \/ buddy_free_push(t)

SpecReverseFree == Init /\ [][NextReverseFree]_vars

\* The scenario has allocated n blocks and freed them all.
ReverseFreeDone(n) ==
  /\ Quiescent
  /\ nallocs = n
  /\ LargeOutstanding = {}

\* The buddy holds one free entry: span 0 at order k.
SingleFreeEntry(k) ==
  \A o \in Orders : FreeList(o) = IF o = k THEN <<0>> ELSE <<>>

\* The order of a block of ScenarioBlocks spans.
ScenarioOrder == next_power_of_two_trailing_zeros(ScenarioBlocks)

\* C11: after four order-0 blocks are allocated from a fresh arena on the
\* large path and freed in reverse index order, the buddy holds a single free
\* entry, at order 2, spanning those four spans.
C11_SingleEntryAtOrderTwo ==
  ReverseFreeDone(ScenarioBlocks) => SingleFreeEntry(ScenarioOrder)

\* C11 amended: after the blocks are freed in reverse index order the buddy
\* holds a single free entry at order BUDDY_MAX_ORDER spanning the whole
\* arena: the block of the four spans coalesces on with its free buddies.
C11_SingleEntryAtMaxOrder ==
  \A n \in 1..ScenarioBlocks :
    ReverseFreeDone(n) => SingleFreeEntry(BUDDY_MAX_ORDER)

\* Four blocks were allocated and all four are freed.
C11_Witness ==
  /\ ReverseFreeDone(ScenarioBlocks)
  /\ GLOBAL_ACTIVE_SPAN_COUNTER = 0
  /\ orders[BUDDY_MAX_ORDER].count = 1

\* The spans a block of order o at span s covers.
BlockSpans(s, o) == s..(s + Pow2(o) - 1)

\* The spans out of the buddy: covered by a large block handed out, or held
\* on the small path as an active span, in a mini-cache or in a shared cache.
AllocatedSpans ==
  UNION {BlockSpans(s, hdr[s].order) : s \in LargeOutstanding}
  \cup {s \in Spans : Places(s) > 0}

\* The entries of the free lists: span and order.
FreeEntries ==
  UNION {LET q == FreeList(o) IN {<<q[k], o>> : k \in 1..Len(q)} :
           o \in Orders}

\* C12: every span reachable from the free list of order k has order == k
\* recorded in its header.
C12_HeaderOrderOfFreeEntries ==
  \A e \in FreeEntries : hdr[e[1]].order = e[2]

\* C12 amended: an entry of the free list of order k reserves its span and
\* the 2^k - 1 following ones: the block lies in the arena at a multiple of
\* 2^k spans, none of its spans is allocated, and no two entries overlap.
C12_FreeEntriesReserveDisjointBlocks ==
  LET entries == FreeEntries
      allocated == AllocatedSpans IN
  /\ \A e \in entries :
       /\ BlockSpans(e[1], e[2]) \subseteq Spans
       /\ e[1] % Pow2(e[2]) = 0
       /\ BlockSpans(e[1], e[2]) \cap allocated = {}
  /\ \A e1, e2 \in entries :
       e1 # e2 => BlockSpans(e1[1], e1[2]) \cap BlockSpans(e2[1], e2[2]) = {}
  /\ Cardinality(entries) =
       SumOver([o \in Orders |-> orders[o].count], Orders)

\* A block freed and coalesced lies on the list of order 1 next to a large
\* block handed out and a small span in use, with the header of the entry
\* still recording order 0.
C12_Witness ==
  /\ \E e \in FreeEntries : e[2] = 1 /\ hdr[e[1]] = [kind |-> "Large",
                                 order |-> 0, class |-> LARGE_CLASS]
  /\ LargeOutstanding # {}
  /\ \E s \in Spans : Places(s) > 0

\* The active-span counter is above its cap.
OverLimit == UGt(GLOBAL_ACTIVE_SPAN_COUNTER, MAX_GLOBAL_ACTIVE_SPANS)

\* retire_small_span of thread t found its span fully free and reads the
\* counter above the cap in this step.
RetiresExcessSpan(t) == pc[t] = "rt_active" /\ OverLimit /\ pc'[t] # pc[t]

\* free_small of thread t links its span in the reuse cache in this step,
\* with the counter above the cap.
FreeLinksOverLimit(t) == pc[t] = "fs_cas" /\ OverLimit /\ pc'[t] # pc[t]

\* C13: once the active-span counter exceeds MAX_GLOBAL_ACTIVE_SPANS the
\* reuse cache and the mini-cache take no new span, and a fully free small
\* span in excess goes back to the buddy, which decrements the counter.
C13_ExcessSpansReturnToBuddy ==
  [][\A t \in Threads :
       /\ RetiresExcessSpan(t) =>
            /\ heap'[t].cache = heap[t].cache
            /\ \E o \in Orders : InSeq(reg[t].sp, FreeList(o))'
            /\ GLOBAL_ACTIVE_SPAN_COUNTER' =
                 WrapSub(GLOBAL_ACTIVE_SPAN_COUNTER, 1)
       /\ FreeLinksOverLimit(t) => reuse_heads' = reuse_heads]_vars

\* The call of thread t on the large or huge path is returning.
Returning(t) == pc[t] = "ret"

ReturningNested(t) == Returning(t) /\ reg[t].nest

PAGE_SIZE == 4096
MappingAddrs == {PAGE_SIZE * k : k \in 1..MaxPages}

\* Layout alignments above 16: powers of two, 32 up to 2^MaxAlignLog.
MIN_HUGE_ALIGN_LOG == 5
Alignments == {Pow2(k) : k \in MIN_HUGE_ALIGN_LOG..MaxAlignLog}

\* The pointer alloc_huge returns for the mapping at raw (lib.rs:1195-1196,
\* 1210): align_up(raw + 128, 64) - 128 + 128.
huge_ptr(raw) ==
  (align_up(raw + SPAN_HEADER_SIZE, 64) - SPAN_HEADER_SIZE) + SPAN_HEADER_SIZE

InitHuge ==
  /\ AllocInit
  /\ \E raw \in MappingAddrs, align \in Alignments :
       calc = [first |-> "huge", stage |-> 0, x0 |-> raw, x1 |-> align,
               x2 |-> 0]

apply_alloc_huge ==
  /\ calc.first = "huge" /\ calc.stage = 0
  /\ calc' = [calc EXCEPT !.stage = 1, !.x2 = huge_ptr(calc.x0)]
  /\ UNCHANGED allocVars

NextHuge == apply_alloc_huge

SpecHuge == InitHuge /\ [][NextHuge]_vars

\* C16: every allocation with alignment above 16 returns a pointer that is a
\* multiple of the requested alignment.
C16_PointerMultipleOfAlign ==
  calc.first = "huge" /\ calc.stage = 1 => calc.x2 % calc.x1 = 0

\* The smallest class whose blocks hold n bytes.
FitClass(n) ==
  CHOOSE c \in Classes :
    /\ class_to_size(c) >= n
    /\ \A c2 \in 0..(c - 1) : class_to_size(c2) < n

\* Both sizes are served by the small classes, and by the same one.
SameSmallClass(a, b) ==
  /\ SmallSize(a) /\ SmallSize(b)
  /\ FitClass(a) = FitClass(b)

\* The program holds the block at ptr of the kind.
Held(kind, ptr) ==
  IF kind = "large"
  THEN /\ ptr = large_ptr(ptr_to_span(ptr))
       /\ large[ptr_to_span(ptr)] = 1
       /\ hdr[ptr_to_span(ptr)].kind = "Large"
  ELSE ptr \in HugeAddrs

\* The spans of the arena the block covers.
SpansOf(kind, ptr) ==
  IF kind = "large"
  THEN BlockSpans(ptr_to_span(ptr), hdr[ptr_to_span(ptr)].order)
  ELSE {}

Min(a, b) == IF a <= b THEN a ELSE b

\* What a realloc in progress has done so far, for thread t.
ReallocOutcome(t) ==
  LET re == reg[t].re
      same == SameSmallClass(re.old, re.new) IN
  /\ re # NoRealloc /\ same =>
       /\ pc[t] = "re_ret"
       /\ reg[t].res = "same" /\ reg[t].ptr = re.ptr
  /\ pc[t] = "re_ret" =>
       /\ Held(re.kind, re.ptr)
       /\ reg[t].res \in {"same", "null"}
       /\ reg[t].res = "same" <=> same
  /\ pc[t] = "re_free" =>
       /\ ~same
       /\ reg[t].res \in {"large", "huge"}
       /\ <<reg[t].res, reg[t].ptr>> # <<re.kind, re.ptr>>
       /\ Held(re.kind, re.ptr)
       /\ Held(reg[t].res, reg[t].ptr)
       /\ SpansOf(re.kind, re.ptr) \cap SpansOf(reg[t].res, reg[t].ptr) = {}
       /\ reg[t].copy = Min(re.old, re.new)

\* The program holds the block after the step.
HeldAfter(kind, ptr) ==
  IF kind = "large"
  THEN /\ large'[ptr_to_span(ptr)] = 1
       /\ hdr'[ptr_to_span(ptr)].kind = "Large"
  ELSE ptr \in {h.raw : h \in huge'}

\* The step of thread t that follows the copy frees the old block, not the
\* new one.
ReallocFreesOld(t) ==
  pc[t] = "re_free" /\ pc'[t] # "re_free" =>
    /\ ~HeldAfter(reg[t].re.kind, reg[t].re.ptr)
    /\ HeldAfter(reg[t].res, reg[t].ptr)

BoundarySizes ==
  {CLASSES_MAX_SIZE + 1,
   SPAN_SIZE - SPAN_HEADER_SIZE, SPAN_SIZE - SPAN_HEADER_SIZE + 1,
   ARENA_SIZE \div 2, ARENA_SIZE \div 2 + 1,
   ARENA_SIZE - SPAN_HEADER_SIZE, ARENA_SIZE - SPAN_HEADER_SIZE + 1}

\* The program asks for one of the sizes of BoundarySizes.
alloc_boundary_begin(t) ==
  /\ nallocs < MaxCalls
  /\ \E size \in BoundarySizes : Allocator_alloc(t, size, NoRealloc)

NextRoute ==
  \E t \in Threads :
    \/ alloc_boundary_begin(t)
    \/ alloc_aligned_begin(t)
    \/ buddy_alloc_pop(t)
    \/ buddy_alloc_split(t)
    \/ buddy_alloc_count(t)
    \/ alloc_large_init(t)
    \/ alloc_huge(t)
    \/ alloc_return(t)
    \/ free_large(t)
    \/ buddy_free_merge(t)
    \/ buddy_free_push(t)
    \/ free_huge(t)

SpecRoute == Init /\ [][NextRoute]_vars

\* The smallest order k whose block of SPAN_SIZE * 2^k bytes holds the size
\* and the header; BUDDY_MAX_ORDER + 1 stands for every order the buddy
\* does not have.
LeastOrder(size) ==
  CHOOSE k \in 0..(BUDDY_MAX_ORDER + 1) :
    /\ k <= BUDDY_MAX_ORDER => SPAN_SIZE * Pow2(k) >= size + SPAN_HEADER_SIZE
    /\ \A j \in 0..(k - 1) : SPAN_SIZE * Pow2(j) < size + SPAN_HEADER_SIZE

\* Thread t is in a call of Allocator::alloc with align <= 16 and a size
\* above the largest small class.
AboveSmall(t) ==
  /\ reg[t].op \in {"large", "huge"}
  /\ reg[t].route # "align"
  /\ reg[t].size > CLASSES_MAX_SIZE

\* The call of thread t returns the block alloc_large made of a buddy block
\* of the order k.
ReturnsLargeBlock(t, k) ==
  LET idx == ptr_to_span(reg[t].ptr) IN
  /\ reg[t].res = "large"
  /\ idx \in Spans /\ idx % Pow2(k) = 0
  /\ hdr[idx] = [kind |-> "Large", order |-> k, class |-> 255]
  /\ reg[t].ptr = idx * SPAN_SIZE + 128

\* C18 as stated: every request with alignment <= 16, a size above the
\* largest small class and size + 128 <= the arena size is served by the
\* large path, with the smallest order k such that 65536 * 2^k >= size + 128,
\* the header kind = Large, order = k, class = 255 and the pointer span + 128;
\* only larger requests or alignment > 16 go to the huge path.
C18_LargePathUpToArenaSize ==
  \A t \in Threads :
    AboveSmall(t) /\ pc[t] = "ret" =>
      IF reg[t].size + SPAN_HEADER_SIZE <= ARENA_SIZE
      THEN ReturnsLargeBlock(t, LeastOrder(reg[t].size))
      ELSE reg[t].res \in {"huge", "null"}

\* C18, amended: a request with alignment <= 16 and a size above the largest
\* small class goes to alloc_large exactly when size <= ARENA_SIZE / 2;
\* alloc_large asks the buddy for the smallest order k such that
\* 65536 * 2^k >= size + 128, and when the buddy has a block it returns
\* span + 128 with the header kind = Large, order = k, class = 255; larger
\* requests, and requests the buddy has no block for, go to the huge path.
C18_LargePathUpToHalfArena ==
  \A t \in Threads :
    AboveSmall(t) =>
      /\ reg[t].route = "large" <=> reg[t].size <= ARENA_SIZE \div 2
      /\ reg[t].route = "large" /\ ~reg[t].miss =>
           /\ reg[t].ord = LeastOrder(reg[t].size)
           /\ reg[t].ord <= BUDDY_MAX_ORDER
      /\ pc[t] = "ret" =>
           IF reg[t].route = "large" /\ ~reg[t].miss
           THEN ReturnsLargeBlock(t, LeastOrder(reg[t].size))
           ELSE reg[t].res \in {"huge", "null"}

\* A request of 32705 bytes returns an order-0 span, while a request of one
\* byte more than half the arena returns a mapping of alloc_huge.
C18_Witness ==
  /\ \E t \in Threads :
       /\ pc[t] = "ret" /\ reg[t].size = 32705
       /\ ReturnsLargeBlock(t, 0)
  /\ \E t \in Threads :
       /\ pc[t] = "ret" /\ reg[t].size = ARENA_SIZE \div 2 + 1
       /\ reg[t].size + SPAN_HEADER_SIZE <= ARENA_SIZE
       /\ reg[t].res = "huge"

(***************************************************************************)
(* C19: GLOBAL_ACTIVE_SPAN_COUNTER against the blocks out of the buddy.    *)
(***************************************************************************)
\* The spans the small path took from the buddy: init_span and the first
\* allocation have moved their bump pointer, and they never go back.
SmallSpansOut == {s \in Spans : span[s].bump > 0}

\* The sum of 2^order over the blocks handed out and not yet returned.
SpansHandedOut ==
  SumOver([s \in Spans |-> IF large[s] > 0 THEN Pow2(hdr[s].order) ELSE 0],
          Spans)
  + Cardinality(SmallSpansOut)

\* The spans held on the free lists of the buddy.
SpansOnFreeLists ==
  SumOver([o \in Orders |-> orders[o].count * Pow2(o)], Orders)

\* No thread is inside a call, and the counter is the spans handed out and
\* the spans missing from the free lists.
CounterQuiescent ==
  /\ Quiescent
  /\ GLOBAL_ACTIVE_SPAN_COUNTER = SpansHandedOut
  /\ GLOBAL_ACTIVE_SPAN_COUNTER = SPANS_PER_ARENA - SpansOnFreeLists

\* A step changes the counter only at the end of a Buddy::alloc that has a
\* block, by + 2^order, and at the start of a Buddy::free, by - 2^order of
\* the block freed.
CounterStep ==
  \/ UNCHANGED GLOBAL_ACTIVE_SPAN_COUNTER
  \/ \E t \in Threads :
       /\ pc[t] = "ba_count" /\ reg[t].idx \in Spans
       /\ reg'[t].sp = reg[t].idx
       /\ GLOBAL_ACTIVE_SPAN_COUNTER' =
            GLOBAL_ACTIVE_SPAN_COUNTER + Pow2(reg[t].ord)
  \/ \E t \in Threads :
       /\ pc[t] \in {"idle", "re_free"} /\ pc'[t] \in {"bf_merge", "bf_push"}
       /\ large[reg'[t].idx] = 1 /\ large'[reg'[t].idx] = 0
       /\ GLOBAL_ACTIVE_SPAN_COUNTER' =
            GLOBAL_ACTIVE_SPAN_COUNTER - Pow2(hdr[reg'[t].idx].order)

\* C19: in every quiescent state the counter is the number of arena spans
\* allocated out of the buddy, the sum of 2^order over the blocks handed out
\* and not yet returned, which is the arena less the spans on the free lists;
\* alloc adds 2^order on success only and free subtracts 2^order.
C19_CounterIsSpansOutOfBuddy ==
  /\ [](Quiescent => CounterQuiescent)
  /\ [][CounterStep]_vars

\* No call is in progress; a large block of two spans and a span of the small
\* path are out, and a large block of one span was freed: the counter is 3.
C19_Witness ==
  /\ CounterQuiescent
  /\ GLOBAL_ACTIVE_SPAN_COUNTER = 3
  /\ \E s \in Spans : large[s] > 0 /\ hdr[s].order = 1
  /\ SmallSpansOut # {}
  /\ \E s \in Spans : large[s] = 0 /\ hdr[s].kind = "Large"

(***************************************************************************)
(* C20: the limit of the reuse-cache stacks.                               *)
(***************************************************************************)
\* ReuseCache::push of thread t finds the counter at the limit: it returns
\* false, and the stack and the counter are as they were.
PushAtLimitRefused(t) ==
  /\ pc[t] \in {"rup_count", "fs_count"}
  /\ reuse_counts[reg[t].cpu] = REUSE_CACHE_LIMIT
  /\ pc'[t] # pc[t]
  => /\ pc'[t] \in {"rup_undo", "fs_gpush"}
     /\ UNCHANGED <<reuse_heads, reuse_counts, span>>

\* C20: under any interleaving of reuse-cache pushes and pops no reuse stack
\* ever holds more than REUSE_CACHE_LIMIT spans, and a push that finds the
\* counter at the limit returns false leaving the stack and the counter
\* unchanged.
C20_ReuseStackWithinLimit ==
  /\ [](\A sh \in Shards : Len(ReuseStack(sh)) <= REUSE_CACHE_LIMIT)
  /\ [][\A t \in Threads : PushAtLimitRefused(t)]_vars

(***************************************************************************)
(* C21: frees by a thread that is not the owner of the span.               *)
(***************************************************************************)
\* The owner-only free lists of every span.
OwnerLists == [s \in Spans |-> <<span[s].hot_block, span[s].local_free>>]

\* Thread t takes a step inside free_small.
FreeStep(t) == reg[t].op = "free" /\ pc[t] # "idle" /\ pc'[t] # pc[t]

\* Thread t enters free_small with a block of a span it does not own: the
\* free takes the remote path; and no later step of a free touches
\* hot_block or local_free, the step at the remote path pushing the block on
\* remote_free.
RemoteFreeStep(t) ==
  /\ pc[t] = "idle" /\ reg'[t].op = "free" /\ span[reg'[t].sp].owner # t
       => pc'[t] = "fs_push" /\ OwnerLists' = OwnerLists
  /\ FreeStep(t) => OwnerLists' = OwnerLists
  /\ FreeStep(t) /\ pc[t] = "fs_push"
       => span'[reg[t].sp].remote_free =
            <<reg[t].blk>> \o span[reg[t].sp].remote_free

\* The blocks of span s that were handed out at least once.
Bumped(s) == 0..(span[s].bump - 1)

\* Thread t owns its active span, every block allocated from it was freed
\* by the other threads, and no call is in progress.
AllFreedRemotely(t) ==
  LET s == heap[t].spans IN
  /\ Quiescent /\ pc[t] = "idle"
  /\ s # NULL /\ span[s].owner = t
  /\ span[s].bump > 0
  /\ \A b \in Blocks : live[s][b] = 0
  /\ span[s].hot_block = NULL /\ span[s].local_free = <<>>

\* The drain of thread t's next allocation finds a block: remote_free is not
\* empty and holds blocks of the span that were handed out.
DrainFindsBlocks(t) ==
  LET q == span[heap[t].spans].remote_free IN
  /\ q # <<>>
  /\ \A k \in 1..Len(q) : q[k] \in Bumped(heap[t].spans)

\* The allocation of thread t that finds hot_block and local_free empty and
\* remote_free not: it takes the whole of remote_free as its local_free and
\* goes round the loop, and with a local_free it returns its first block.
DrainStep(t) ==
  LET s == heap[t].spans IN
  /\ pc[t] = "idle" /\ pc'[t] # "idle" /\ reg'[t].op = "alloc" /\ s # NULL
     /\ span[s].hot_block = NULL /\ span[s].local_free = <<>>
     /\ span[s].remote_free # <<>>
       => /\ pc'[t] = "as_loop"
          /\ span'[s].local_free = span[s].remote_free
          /\ span'[s].remote_free = <<>>
  /\ pc[t] = "as_loop" /\ pc'[t] # pc[t] /\ s # NULL
     /\ span[s].hot_block = NULL /\ span[s].local_free # <<>>
       => /\ pc'[t] = "idle"
          /\ live'[s][Head(span[s].local_free)] =
               live[s][Head(span[s].local_free)] + 1

\* C21: a free by a thread other than the span's owner always pushes the
\* block on the span's remote_free and never modifies hot_block or
\* local_free; after the other threads have freed every block a thread
\* allocated, its next allocation succeeds and reuses those blocks through
\* the drain of remote_free.
C21_RemoteFreeAndDrain ==
  /\ [][\A t \in Threads : RemoteFreeStep(t) /\ DrainStep(t)]_vars
  /\ [](\A t \in Threads : AllFreedRemotely(t) => DrainFindsBlocks(t))

\* A thread has drained remote_free and holds every block of its span, freed
\* by the other thread, on local_free.
C21_Witness ==
  \E t \in Threads :
    LET s == heap[t].spans IN
    /\ pc[t] = "as_loop" /\ s # NULL /\ span[s].owner = t
    /\ span[s].hot_block = NULL /\ span[s].remote_free = <<>>
    /\ Len(span[s].local_free) = Capacity
    /\ \A b \in Blocks : live[s][b] = 0


(***************************************************************************)
(* ThreadHeap::drop (lib.rs:255-287): what a destroyed heap leaves behind. *)
(***************************************************************************)
\* No span is owned by a thread whose heap is gone.
ExitedOwnsNothing ==
  \A t \in Threads : pc[t] = "dead" => \A s \in Spans : span[s].owner # t

\* Thread t is in ThreadHeap::drop and takes the step at label l.
DropStep(t, l) == reg[t].op = "exit" /\ pc[t] = l /\ pc'[t] # pc[t]

\* The retire of the active span (lib.rs:264-266): the lists go to
\* remote_free, and they are still empty when owner becomes orphan.
DropPublishes(t) ==
  LET s == reg[t].sp IN
  /\ DropStep(t, "rt_publish")
       => /\ span'[s].remote_free = PublishList(s) \o span[s].remote_free
          /\ span'[s].hot_block = NULL /\ span'[s].local_free = <<>>
  /\ DropStep(t, "rt_orphan")
       => /\ span[s].hot_block = NULL /\ span[s].local_free = <<>>
          /\ span'[s].owner = SPAN_OWNER_ORPHAN

\* The global stack of shard sh after the step.
GlobalStackAfter(sh) ==
  LET RECURSIVE Walk(_, _)
      Walk(h, n) == IF h = NULL \/ n = 0 THEN <<>>
                    ELSE <<h>> \o Walk(span'[h].cache_next, n - 1)
  IN Walk(cache_heads'[sh].ptr, ChainLimit)

\* The flush of a mini-cache span (lib.rs:269-284): once pushed it is linked
\* in the global cache, orphaned, out of the reuse cache, without remote
\* frees.
DropFlushes(t) ==
  LET s == reg[t].sp IN
  DropStep(t, "dr_gpush")
    => /\ \E sh \in Shards : InSeq(s, GlobalStackAfter(sh))
       /\ span'[s].owner = SPAN_OWNER_ORPHAN
       /\ ~span'[s].in_reuse
       /\ span'[s].remote_free = <<>>

\* C22: after a thread's heap is destroyed no span has owner equal to that
\* thread's id; its active span had hot_block and local_free emptied and
\* published on remote_free before owner became orphan, and every span of
\* its mini-cache is linked in the global cache with owner = orphan,
\* in_reuse = false and remote_free = null.
C22_DropLeavesNoOwnedSpan ==
  /\ []ExitedOwnsNothing
  /\ [][\A t \in Threads : DropPublishes(t) /\ DropFlushes(t)]_vars


(***************************************************************************)
(* The block layout of a small span (lib.rs:962-982, 1011-1065, 1079-1087) *)
(* in addresses: one span of one class, its owner allocating and freeing.  *)
(* A span keeps its class for good: the caches are per class               *)
(* (lib.rs:499, 555-556) and no small span goes back to the buddy.         *)
(***************************************************************************)
\* The addresses os_mmap may return for the arena (lib.rs:647).
ArenaRaws == {PAGE_SIZE, SPAN_SIZE, SPAN_SIZE + PAGE_SIZE}

\* Arena::get (lib.rs:652): the base is raw rounded up to SPAN_SIZE.
arena_base(raw) == align_up(raw, SPAN_SIZE)

\* Arena::idx_to_span (lib.rs:663-665) as an address.
span_addr(base, idx) == base + idx * SPAN_SIZE

\* Arena::ptr_to_span (lib.rs:673-675): ptr & SPAN_ALIGN_MASK.
span_of_addr(ptr) == (ptr \div SPAN_SIZE) * SPAN_SIZE

\* Mutant of span_capacity: the header is not taken off the span.
span_capacity_no_header(block_size) == SPAN_SIZE \div block_size
\* init_span's capacity (lib.rs:964).
span_capacity(block_size) == (SPAN_SIZE - SPAN_HEADER_SIZE) \div block_size

\* The header init_span writes (lib.rs:963-976), with no pointer out yet.
init_span_layout(sp, class) ==
  LET block_size == class_to_size(class)
      base == sp + SPAN_HEADER_SIZE
  IN [first |-> "layout", span |-> sp, kind |-> "Small", class |-> class,
      block_size |-> block_size, bump |-> base,
      bump_end |-> base + span_capacity(block_size) * block_size,
      hot_block |-> NULL, ptr |-> NULL]

InitLayout ==
  /\ AllocInit
  /\ \E raw \in ArenaRaws, idx \in Spans, class \in Classes :
       calc = init_span_layout(span_addr(arena_base(raw), idx), class)

\* alloc_small, the bump path (lib.rs:1059-1065); the caller holds no
\* pointer of the span under watch.
layout_bump ==
  /\ calc.ptr = NULL /\ calc.hot_block = NULL
  /\ calc.bump + calc.block_size <= calc.bump_end
  /\ calc' = [calc EXCEPT !.ptr = calc.bump, !.bump = @ + calc.block_size]
  /\ UNCHANGED allocVars

\* The pointer is kept by the caller and no longer watched.
layout_keep ==
  /\ calc.ptr # NULL
  /\ calc' = [calc EXCEPT !.ptr = NULL]
  /\ UNCHANGED allocVars

\* free_small by the owner (lib.rs:1079-1087) of the pointer under watch.
layout_free ==
  /\ calc.ptr # NULL /\ calc.hot_block = NULL
  /\ calc' = [calc EXCEPT !.hot_block = calc.ptr, !.ptr = NULL]
  /\ UNCHANGED allocVars

\* alloc_small, the hot block (lib.rs:1013-1018).
layout_hot ==
  /\ calc.ptr = NULL /\ calc.hot_block # NULL
  /\ calc' = [calc EXCEPT !.ptr = calc.hot_block, !.hot_block = NULL]
  /\ UNCHANGED allocVars

NextLayout == layout_bump \/ layout_keep \/ layout_free \/ layout_hot

SpecLayout == InitLayout /\ [][NextLayout]_vars

\* C23: for every live pointer p returned by small allocation, the span
\* obtained by masking off p's low 16 bits has kind == Small, p >= span + 128,
\* p is 16-byte aligned and p + block_size <= span + 65536.
C23_SmallPointerInsideItsSpan ==
  calc.ptr # NULL =>
    /\ span_of_addr(calc.ptr) = calc.span
    /\ calc.kind = "Small"
    /\ calc.ptr >= calc.span + SPAN_HEADER_SIZE
    /\ calc.ptr % 16 = 0
    /\ calc.ptr + calc.block_size <= calc.span + SPAN_SIZE

\* The last block of a span of the smallest class is handed out.
C23_Witness ==
  /\ calc.first = "layout" /\ calc.class = 0
  /\ calc.ptr # NULL
  /\ calc.ptr + 2 * calc.block_size > calc.bump_end


(***************************************************************************)
(* malloc_usable_size (lib.rs:1412-1433) in addresses: one allocation is   *)
(* made, its header written as the allocating path writes it, and the      *)
(* function is asked about the pointer returned.                           *)
(***************************************************************************)
\* The null pointer as an address.
NULL_ADDR == 0

\* The sizes asked of alloc_huge: over-aligned requests of any size
\* (lib.rs:1237-1239) and sizes above half the arena (lib.rs:1250-1254).
HugeRequestSizes == AlignedSizes \cup {ARENA_SIZE \div 2 + 1}

\* Arena::get maps ARENA_SIZE + SPAN_SIZE bytes at raw (lib.rs:647); a later
\* mapping of total bytes lies below or above it.
OutsideArenaMapping(araw, m, total) ==
  m + total <= araw \/ m >= araw + ARENA_SIZE + SPAN_SIZE

HugeRaws(araw, total) ==
  {m \in MappingAddrs \cup {araw + ARENA_SIZE + SPAN_SIZE + PAGE_SIZE * k : k \in 0..1} :
     OutsideArenaMapping(araw, m, total)}

\* The requests: what is allocated, in an arena mapped at araw.
UsableRequests ==
  [what : {"null"}, araw : ArenaRaws]
  \cup [what : {"small"}, araw : ArenaRaws, idx : Spans, class : Classes]
  \cup {r \in [what : {"large"}, araw : ArenaRaws, idx : Spans,
               order : 0..BUDDY_MAX_ORDER] : r.idx % Pow2(r.order) = 0}
  \cup {r \in [what : {"huge"}, araw : ArenaRaws, size : HugeRequestSizes,
               raw : MappingAddrs \cup {a + ARENA_SIZE + SPAN_SIZE + PAGE_SIZE * k :
                                          a \in ArenaRaws, k \in 0..1}] :
          r.raw \in HugeRaws(r.araw, r.size + SPAN_HEADER_SIZE + 64)}
  \cup {r \in [what : {"foreign"}, araw : ArenaRaws,
               raw : MappingAddrs \cup {a + ARENA_SIZE + SPAN_SIZE + PAGE_SIZE * k :
                                          a \in ArenaRaws, k \in 0..1}] :
          r.raw \in HugeRaws(r.araw, PAGE_SIZE)}

\* Header fields malloc_usable_size reads, as zeroed memory holds them.
UsableHdr0 == [kind |-> "Small", order |-> 0, block_size |-> 0, huge_size |-> 0]

InitUsable ==
  /\ AllocInit
  /\ \E r \in UsableRequests :
       calc = [first |-> "usable", stage |-> 0, req |-> r,
               base |-> arena_base(r.araw), at |-> NULL_ADDR,
               hd |-> UsableHdr0, ptr |-> NULL_ADDR, res |-> 0]

\* The allocation: the header the path writes and the pointer it returns.
\* Small: init_span and the first bump (lib.rs:963-976, 1059-1064); large:
\* alloc_large (lib.rs:1163-1178); huge: alloc_huge (lib.rs:1195-1210); a
\* foreign pointer belongs to another allocator and has no header.
usable_alloc ==
  /\ calc.first = "usable" /\ calc.stage = 0
  /\ LET r == calc.req IN
     calc' =
       IF r.what = "small"
       THEN LET L == init_span_layout(span_addr(calc.base, r.idx), r.class) IN
            [calc EXCEPT !.stage = 1, !.at = L.span, !.ptr = L.bump,
               !.hd = [UsableHdr0 EXCEPT !.kind = "Small",
                                         !.block_size = L.block_size]]
       ELSE IF r.what = "large"
       THEN LET sp == span_addr(calc.base, r.idx) IN
            [calc EXCEPT !.stage = 1, !.at = sp, !.ptr = sp + SPAN_HEADER_SIZE,
               !.hd = [UsableHdr0 EXCEPT !.kind = "Large", !.order = r.order]]
       ELSE IF r.what = "huge"
       THEN [calc EXCEPT !.stage = 1,
               !.at = huge_ptr(r.raw) - SPAN_HEADER_SIZE,
               !.ptr = huge_ptr(r.raw),
               !.hd = [UsableHdr0 EXCEPT !.kind = "Huge",
                         !.huge_size = r.size + SPAN_HEADER_SIZE + 64]]
       ELSE IF r.what = "foreign"
       THEN [calc EXCEPT !.stage = 1, !.ptr = r.raw]
       ELSE [calc EXCEPT !.stage = 1]
  /\ UNCHANGED allocVars

\* Arena::contains (lib.rs:678-682).
arena_contains(base, ptr) == ptr >= base /\ ptr < base + ARENA_SIZE

\* usize::saturating_sub.
saturating_sub(a, b) == IF a >= b THEN a - b ELSE 0

\* The value of the matched header (lib.rs:1420-1427).
usable_of_header(h) ==
  IF h.kind = "Small" THEN h.block_size
  ELSE IF h.kind = "Large" THEN SPAN_SIZE * Pow2(h.order) - SPAN_HEADER_SIZE
  ELSE saturating_sub(h.huge_size, SPAN_HEADER_SIZE + 64)

\* malloc_usable_size(ptr) with the header hd at address at.
malloc_usable_size(base, at, hd, ptr) ==
  IF ptr = NULL_ADDR THEN 0
  ELSE IF arena_contains(base, ptr)
  THEN usable_of_header(IF span_of_addr(ptr) = at THEN hd ELSE UsableHdr0)
  ELSE 0

apply_malloc_usable_size ==
  /\ calc.first = "usable" /\ calc.stage = 1
  /\ calc' = [calc EXCEPT !.stage = 2,
                !.res = malloc_usable_size(calc.base, calc.at, calc.hd, calc.ptr)]
  /\ UNCHANGED allocVars

NextUsable == usable_alloc \/ apply_malloc_usable_size

SpecUsable == InitUsable /\ [][NextUsable]_vars

\* What the function is said to return for the allocation made.
UsableExpected ==
  LET r == calc.req IN
  IF r.what = "small" THEN class_to_size(r.class)
  ELSE IF r.what = "large" THEN SPAN_SIZE * Pow2(r.order) - SPAN_HEADER_SIZE
  ELSE IF r.what = "huge" THEN calc.hd.huge_size - SPAN_HEADER_SIZE - 64
  ELSE 0

\* C24: malloc_usable_size(p) returns the span's block size for a small
\* allocation, (65536 << order) - 128 for a large allocation,
\* huge_size - 128 - 64 for a huge (directly mapped) allocation, and 0 for a
\* foreign or null pointer.
C24_UsableSizeByKind ==
  calc.stage = 2 => calc.res = UsableExpected


(***************************************************************************)
(* Buddy::alloc and Buddy::free under interleaving (lib.rs:435-492): who   *)
(* holds which block.  Between two lock acquisitions a thread holds the    *)
(* block it popped or merged, and nobody else can see it.                  *)
(***************************************************************************)
\* The block thread t holds inside Buddy::alloc, inside Buddy::free, or on
\* its way from Buddy::alloc to the header writes of its caller.
InTransit(t) ==
  IF pc[t] = "ba_split" THEN {<<"thread", t, reg[t].idx, reg[t].o + 1>>}
  ELSE IF pc[t] = "ba_count" THEN {<<"thread", t, reg[t].idx, reg[t].ord>>}
  ELSE IF pc[t] \in {"bf_merge", "bf_push"} THEN {<<"thread", t, reg[t].idx, reg[t].ord>>}
  ELSE IF pc[t] = "al_init" THEN {<<"thread", t, reg[t].sp, reg[t].ord>>}
  ELSE IF pc[t] \in {"ba_used", "is_remote", "is_owner", "is_rest"}
  THEN {<<"thread", t, reg[t].sp, 0>>}
  ELSE {}

\* The blocks handed out: large blocks by their header's order, small spans.
HandedOut ==
  {<<"large", 0, s, hdr[s].order>> : s \in LargeOutstanding}
  \cup {<<"small", 0, s, 0>> : s \in {x \in Spans : Places(x) > 0 \/ span[x].bump > 0}}

\* Every block of the arena with its holder: a free list, a thread inside
\* the buddy, or a caller.
BuddyHoldings ==
  {<<"free", 0, e[1], e[2]>> : e \in FreeEntries}
  \cup UNION {InTransit(t) : t \in Threads}
  \cup HandedOut

\* No free list holds an index twice, and its count is its length.
FreeListsSimple ==
  \A o \in Orders :
    LET q == FreeList(o) IN
    /\ Len(q) = orders[o].count
    /\ \A j, k \in 1..Len(q) : j # k => q[j] # q[k]

\* C25: under any interleaving of buddy alloc and free calls by several
\* threads, the blocks on the free lists are pairwise disjoint span ranges,
\* each order-k entry starts at a multiple of 2^k, no range overlaps a block
\* handed out, and no index is returned to two callers at once; the blocks a
\* thread holds between two lock acquisitions are disjoint from all of them.
C25_BuddyBlocksDisjoint ==
  LET H == BuddyHoldings IN
  /\ FreeListsSimple
  /\ \A h \in H : /\ BlockSpans(h[3], h[4]) \subseteq Spans
                  /\ h[3] % Pow2(h[4]) = 0
  /\ \A h1, h2 \in H :
       h1 # h2 => BlockSpans(h1[3], h1[4]) \cap BlockSpans(h2[3], h2[4]) = {}
  /\ \A s \in Spans : large[s] <= 1
  /\ UNION {BlockSpans(h[3], h[4]) : h \in H} = Spans

\* One thread has merged a freed block with its buddy and holds the order-1
\* block between two lock acquisitions, while the other, inside Buddy::alloc,
\* holds a block it is about to split.
C25_Witness ==
  \E t, u \in Threads :
    /\ pc[t] = "bf_merge" /\ reg[t].ord >= 1
    /\ pc[u] = "ba_split"


(***************************************************************************)
(* Where a fully free orphan span is kept (lib.rs:857-869, 1113-1138).     *)
(***************************************************************************)
\* The links and slots of the caches that hold span s: reuse stacks, global
\* stacks, mini-caches.
CachePlaces(s) == Places(s) - Cardinality({t \in Threads : heap[t].spans = s})

\* A span the small path has used, orphaned, with no block in use.
FreeOrphan(s) ==
  /\ hdr[s].kind = "Small" /\ span[s].bump > 0
  /\ span[s].owner = SPAN_OWNER_ORPHAN
  /\ span[s].used = 0

\* C26: in every quiescent state every small span with owner == orphan and
\* used == 0 is linked in exactly one cache (a mini-cache, the global cache
\* or the reuse cache).
C26_FreeOrphanSpanInOneCache ==
  Quiescent => \A s \in Spans : FreeOrphan(s) => CachePlaces(s) = 1


(***************************************************************************)
(* The callers of init_span (lib.rs:746-760, 787-790, 815-826).            *)
(***************************************************************************)
\* Thread t calls init_span in this step: get_span_small has its span from
\* the mini-cache, the global cache, the reuse cache or the buddy.
InitSpanCalled(t) == pc[t] # "is_remote" /\ pc'[t] = "is_remote"

\* Thread t takes a step inside init_span.
InitSpanStep(t) ==
  pc[t] \in {"is_remote", "is_owner", "is_rest"} /\ pc'[t] # pc[t]

\* C27: init_span is only ever called on a span whose used counter is 0, and
\* init_span itself leaves used unchanged.
C27_InitSpanOnUnusedSpan ==
  [][\A t \in Threads :
       /\ InitSpanCalled(t) => span'[reg'[t].sp].used = 0
       /\ InitSpanStep(t) => span'[reg[t].sp].used = span[reg[t].sp].used]_vars


(***************************************************************************)
(* retire_small_span followed by a claim from the reuse cache              *)
(* (lib.rs:836-854, 787-810): where the free blocks of the span are.       *)
(***************************************************************************)
\* Thread t stores owner = orphan in this step (lib.rs:853).
RetireOrphanStep(t) == pc[t] = "rt_orphan" /\ pc'[t] # pc[t]

\* The lists of the owner are empty when retire gives the span up.
RetireReleasesEmptyLists(t) ==
  RetireOrphanStep(t) =>
    /\ span[reg[t].sp].hot_block = NULL
    /\ span[reg[t].sp].local_free = <<>>
    /\ span'[reg[t].sp].owner = SPAN_OWNER_ORPHAN

\* How often block b of span s is free: on hot_block, local_free or
\* remote_free, or in the hands of a free_small that has not pushed it yet.
TimesFree(s, b) ==
  (IF span[s].hot_block = b THEN 1 ELSE 0)
  + Occurrences(b, span[s].local_free)
  + Occurrences(b, span[s].remote_free)
  + Cardinality({t \in Threads : /\ pc[t] = "fs_push"
                                 /\ reg[t].sp = s /\ reg[t].blk = b})

\* The span has a block in use by the program.
PartiallyUsed(s) == \E b \in Blocks : live[s][b] > 0

\* Every block of a partially used span that was ever handed out is in use
\* or free, once.
FreeBlocksKept ==
  \A s \in Spans :
    PartiallyUsed(s) =>
      \A b \in Bumped(s) : live[s][b] + TimesFree(s, b) = 1

\* C28: at the moment retire_small_span stores owner = orphan, hot_block and
\* local_free are null and their blocks are on remote_free, so across retire
\* plus a later claim from the reuse cache no free block of a partially used
\* span is lost or duplicated.
C28_RetirePublishesBeforeRelease ==
  /\ [][\A t \in Threads : RetireReleasesEmptyLists(t)]_vars
  /\ []FreeBlocksKept


(***************************************************************************)
(* get_span_small (lib.rs:746-827): the order of the tiers, the claim of a *)
(* reuse-cache candidate, and what is returned.                            *)
(***************************************************************************)
\* Thread t enters get_span_small in this step: its active span is null.
GetSpanCalled(t) ==
  /\ pc[t] \in {"idle", "wh_tls", "as_loop"} /\ pc'[t] # pc[t]
  /\ reg'[t].op = "alloc" /\ heap[t].spans = NULL

\* Thread t is at label l inside a small allocation and leaves it.
GetSpanStep(t, l) == pc[t] = l /\ reg[t].op = "alloc" /\ pc'[t] # pc[t]

\* Tier 1 first; tier 2 only after the mini-cache missed; tier 3 only after
\* the last shard of the global cache was found empty; tier 4 only after the
\* last shard of the reuse cache was found empty; null only after the last
\* order of the buddy was found empty.
TiersInOrder(t) ==
  /\ GetSpanCalled(t) =>
       IF Len(heap[t].cache) > 0
       THEN /\ pc'[t] = "is_remote"
            /\ reg'[t].sp = heap[t].cache[Len(heap[t].cache)]
       ELSE pc'[t] = "gp_load"
  /\ GetSpanStep(t, "gp_load") /\ pc'[t] # "gp_cas" =>
       /\ pc'[t] = "rp_load"
       /\ reg[t].i = SHARD_COUNT - 1
       /\ cache_heads[ShardOf(t)].ptr = NULL
  /\ GetSpanStep(t, "gp_cas") => pc'[t] \in {"is_remote", "gp_load"}
  /\ GetSpanStep(t, "rp_load") /\ pc'[t] # "rp_cas" =>
       /\ pc'[t] = "ba_pop"
       /\ reg[t].i = SHARD_COUNT - 1
       /\ reuse_heads[ShardOf(t)].ptr = NULL
  /\ pc[t] = "ba_pop" /\ reg[t].op = "alloc" /\ reg'[t].op # "alloc" =>
       /\ reg[t].o = BUDDY_MAX_ORDER
       /\ orders[BUDDY_MAX_ORDER].head = NULL

\* A candidate popped from the reuse cache is kept only through the CAS of
\* owner from orphan to the caller's id (lib.rs:769-782).
ClaimByCas(t) ==
  GetSpanStep(t, "rp_claim") =>
    IF span[reg[t].sp].owner = SPAN_OWNER_ORPHAN
    THEN pc'[t] = "rp_clear" /\ span'[reg[t].sp].owner = t
    ELSE pc'[t] = "rp_load" /\ span' = span

\* get_span_small returns a span in this step: the end of init_span or of the
\* drain of a claimed span.
GetSpanReturns(t) ==
  pc[t] \in {"is_rest", "rp_clear2"} /\ pc'[t] = "as_loop"

ReturnedSpanOwned(t) ==
  GetSpanReturns(t) =>
    /\ heap'[t].spans = reg[t].sp
    /\ span'[reg[t].sp].owner = t
    /\ ~span'[reg[t].sp].in_reuse
    /\ hdr'[reg[t].sp].kind = "Small"
    /\ hdr'[reg[t].sp].class = SmallClass

\* C29: get_span_small consults the mini-cache, the global cache over all
\* shards, the reuse cache over all shards and the buddy at order 0, in this
\* order, and returns null only if all four miss; a reuse-cache candidate is
\* taken only if the CAS of owner from orphan to the caller's tid succeeds;
\* every span returned has owner == caller's tid, in_reuse == false and the
\* requested class.
C29_GetSpanSmallTiers ==
  [][\A t \in Threads :
       TiersInOrder(t) /\ ClaimByCas(t) /\ ReturnedSpanOwned(t)]_vars


(***************************************************************************)
(* One tagged stack of the global cache or the reuse cache on its own      *)
(* (lib.rs:510-547, 569-616): the head is the packed word, the spans are   *)
(* addresses, and the threads push spans they hold and pop spans.          *)
(***************************************************************************)
\* The successful operations on the stack the model follows.
MaxStackOps == 5

RECURSIVE BitOr(_, _)
BitOr(a, b) ==
  IF a = 0 THEN b ELSE IF b = 0 THEN a
  ELSE (IF a % 2 = 1 \/ b % 2 = 1 THEN 1 ELSE 0) + 2 * BitOr(a \div 2, b \div 2)

\* packed_head & !0xFFFF and packed_head as u16 (lib.rs:514, 519).
head_ptr(packed) == (packed \div Pow2(TAG_BITS)) * Pow2(TAG_BITS)
head_tag(packed) == packed % Pow2(TAG_BITS)

\* Mutant of next_tag: the tag is incremented without wrapping.
next_tag_wide(tag) == tag + 1
\* (packed_head as u16).wrapping_add(1) (lib.rs:519, 534, 579, 602).
next_tag(tag) == (tag + 1) % Pow2(TAG_BITS)

\* (ptr as u64) | (tag as u64): the new packed head.
new_packed(ptr, packed_head) == BitOr(ptr, next_tag(head_tag(packed_head)))

\* The spans that go through the stack, and the null pointer.
StackSpans == {span_addr(arena_base(SPAN_SIZE), idx) : idx \in 0..2}

\* The tag of the head when the model starts to follow the stack: any value
\* is reachable by earlier operations; the last ones before the wrap are
\* taken with the first.
StartTags == {0, Pow2(TAG_BITS) - 2}

InitStack ==
  /\ AllocInit
  /\ \E own \in [StackSpans -> Threads], tag \in StartTags :
       calc = [first |-> "stack", head |-> tag, ops |-> 0,
               next |-> [s \in StackSpans |-> NULL_ADDR],
               held |-> [t \in Threads |-> {s \in StackSpans : own[s] = t}],
               at |-> [t \in Threads |-> "idle"],
               cur |-> [t \in Threads |-> NULL_ADDR],
               snap |-> [t \in Threads |-> 0],
               nxt |-> [t \in Threads |-> NULL_ADDR]]

\* push: head.load and the write of span.cache_next (lib.rs:532-533,
\* 600-601); the span is one the thread holds, or the one of the iteration
\* that failed.
stack_push_load(t) ==
  /\ calc.first = "stack" /\ calc.at[t] \in {"idle", "push"}
  /\ calc.ops < MaxStackOps
  /\ \E s \in IF calc.at[t] = "push" THEN {calc.cur[t]} ELSE calc.held[t] :
       calc' = [calc EXCEPT !.at[t] = "push_cas", !.cur[t] = s,
                            !.snap[t] = calc.head,
                            !.next[s] = head_ptr(calc.head)]
  /\ UNCHANGED allocVars

\* push: the CAS (lib.rs:535-545, 603-613).
stack_push_cas(t) ==
  /\ calc.first = "stack" /\ calc.at[t] = "push_cas"
  /\ calc' = IF calc.head = calc.snap[t]
             THEN [calc EXCEPT !.head = new_packed(calc.cur[t], calc.snap[t]),
                               !.ops = @ + 1,
                               !.held[t] = @ \ {calc.cur[t]},
                               !.at[t] = "idle", !.cur[t] = NULL_ADDR,
                               !.snap[t] = 0]
             ELSE [calc EXCEPT !.at[t] = "push", !.snap[t] = 0]
  /\ UNCHANGED allocVars

\* pop: head.load, the null test and the read of cache_next (lib.rs:513-518,
\* 573-577).
stack_pop_load(t) ==
  /\ calc.first = "stack" /\ calc.at[t] \in {"idle", "pop"}
  /\ calc.ops < MaxStackOps
  /\ calc' = IF head_ptr(calc.head) = NULL_ADDR
             THEN [calc EXCEPT !.at[t] = "idle"]
             ELSE [calc EXCEPT !.at[t] = "pop_cas", !.snap[t] = calc.head,
                               !.nxt[t] = calc.next[head_ptr(calc.head)]]
  /\ UNCHANGED allocVars

\* pop: the CAS (lib.rs:520-525, 579-585); the span popped is the caller's.
stack_pop_cas(t) ==
  /\ calc.first = "stack" /\ calc.at[t] = "pop_cas"
  /\ calc' = IF calc.head = calc.snap[t]
             THEN [calc EXCEPT !.head = new_packed(calc.nxt[t], calc.snap[t]),
                               !.ops = @ + 1,
                               !.held[t] = @ \cup {head_ptr(calc.snap[t])},
                               !.at[t] = "idle", !.snap[t] = 0,
                               !.nxt[t] = NULL_ADDR]
             ELSE [calc EXCEPT !.at[t] = "pop", !.snap[t] = 0,
                               !.nxt[t] = NULL_ADDR]
  /\ UNCHANGED allocVars

NextStack ==
  \E t \in Threads :
    \/ stack_push_load(t)
    \/ stack_push_cas(t)
    \/ stack_pop_load(t)
    \/ stack_pop_cas(t)

SpecStack == InitStack /\ [][NextStack]_vars

\* The spans linked from the head, top first.
RECURSIVE StackChain(_, _)
StackChain(p, n) ==
  IF p \notin StackSpans \/ n = 0 THEN <<>>
  ELSE <<p>> \o StackChain(calc.next[p], n - 1)

StackContents == StackChain(head_ptr(calc.head), Cardinality(StackSpans) + 1)

\* A step that changes the head adds one to its tag modulo 2^16 and leaves a
\* span address or null above it.
TagStep ==
  calc'.head # calc.head =>
    /\ head_tag(calc'.head) = (head_tag(calc.head) + 1) % Pow2(TAG_BITS)
    /\ head_ptr(calc'.head) \in StackSpans \cup {NULL_ADDR}
    /\ head_ptr(calc'.head) % SPAN_SIZE = 0

\* Every span is in one place: linked in the stack once, or held by one
\* thread.
EachSpanInOnePlace ==
  \A s \in StackSpans :
    Occurrences(s, StackContents)
      + Cardinality({t \in Threads : s \in calc.held[t]}) = 1

\* C30: every successful push or pop increments the 16-bit tag of the packed
\* head by one modulo 2^16 and keeps a 64 KiB-aligned span address (or null)
\* in the upper bits; under any interleaving of pushes and pops on one stack
\* each pushed span is returned by at most one pop and none is lost (fewer
\* than 2^16 operations occur between a read of the head and its CAS).
C30_TaggedStackKeepsSpans ==
  /\ [][TagStep]_vars
  /\ []EachSpanInOnePlace

\* The tag has wrapped from 2^16 - 1 to 0 with a span on the stack, and a
\* thread's CAS has failed on a head another thread changed.
C30_Witness ==
  /\ calc.first = "stack"
  /\ head_tag(calc.head) = 0 /\ calc.ops >= 2
  /\ head_ptr(calc.head) # NULL_ADDR
  /\ \E t \in Threads : calc.at[t] \in {"push", "pop"}

(***************************************************************************)
(* Buddy::alloc step by step (lib.rs:435-463): what each lock .. unlock    *)
(* section does to the free lists, and what the call returns.              *)
(***************************************************************************)
\* Thread t takes a step from label l.
BuddyStep(t, l) ==
  /\ pc[t] = l
  /\ <<pc[t], reg[t]>>' # <<pc[t], reg[t]>>

\* The free list of order o after the step.
FreeListAfter(o) ==
  LET RECURSIVE Walk(_, _)
      Walk(h, n) == IF h = NULL \/ n = 0 THEN <<>>
                    ELSE <<h>> \o Walk(span'[h].cache_next, n - 1)
  IN Walk(orders'[o].head, ChainLimit)

OtherListsKept(o) ==
  \A k \in Orders \ {o} : FreeListAfter(k) = FreeList(k)

\* The walk starts at the requested order and never goes below it.
WalkStartsAtOrder(t) ==
  /\ pc[t] # "ba_pop" /\ pc'[t] = "ba_pop" => reg'[t].o = reg'[t].ord
  /\ pc[t] = "ba_pop" => reg[t].o >= reg[t].ord

\* A pop that finds order o empty changes no list and goes one order up.
PopMissGoesUp(t) ==
  LET o == reg[t].o IN
  BuddyStep(t, "ba_pop") /\ FreeList(o) = <<>>
    => /\ \A k \in Orders : FreeListAfter(k) = FreeList(k)
       /\ o < BUDDY_MAX_ORDER
            => pc'[t] = "ba_pop" /\ reg'[t].o = o + 1
                 /\ reg'[t].ord = reg[t].ord

\* A pop that finds order o non-empty takes its head and nothing else; at
\* the requested order the call goes on to return it, at a higher order to
\* split it from o - 1 down.
PopHitTakesHead(t) ==
  LET o == reg[t].o IN
  BuddyStep(t, "ba_pop") /\ FreeList(o) # <<>>
    => /\ FreeListAfter(o) = Tail(FreeList(o))
       /\ OtherListsKept(o)
       /\ reg'[t].idx = Head(FreeList(o))
       /\ reg'[t].ord = reg[t].ord
       /\ IF o = reg[t].ord
          THEN pc'[t] = "ba_count"
          ELSE pc'[t] = "ba_split" /\ reg'[t].o = o - 1

\* A split step pushes the upper half idx + 2^s onto order s and nothing
\* else, and goes on to s - 1 until the requested order is done.
SplitPushesUpperHalf(t) ==
  LET s == reg[t].o
      idx == reg[t].idx IN
  BuddyStep(t, "ba_split")
    => /\ FreeListAfter(s) = <<idx + Pow2(s)>> \o FreeList(s)
       /\ OtherListsKept(s)
       /\ reg'[t].idx = idx
       /\ reg'[t].ord = reg[t].ord
       /\ IF s > reg[t].ord
          THEN pc'[t] = "ba_split" /\ reg'[t].o = s - 1
          ELSE pc'[t] = "ba_count"

\* The call returns the index it popped and changes no list on the way out.
AllocReturnsIdx(t) ==
  BuddyStep(t, "ba_count")
    => /\ reg'[t].sp = reg[t].idx
       /\ \A k \in Orders : FreeListAfter(k) = FreeList(k)

\* C31: Buddy alloc(order), when orders order..o-1 are empty and o is the
\* lowest non-empty higher order, pops index idx from order o, pushes the
\* upper halves idx + 2^s onto order s for s = o-1 down to order, returns
\* idx, and leaves every other free-list entry unchanged; when the requested
\* order is non-empty it pops from it and changes no other list.
C31_BuddyAllocSplits ==
  [][\A t \in Threads :
       /\ WalkStartsAtOrder(t)
       /\ PopMissGoesUp(t)
       /\ PopHitTakesHead(t)
       /\ SplitPushesUpperHalf(t)
       /\ AllocReturnsIdx(t)]_vars

\* A call for order 0 has popped a block of order 2 or more, pushed its
\* upper halves at orders 1 and 0 and is about to return the index.
C31_Witness ==
  \E t \in Threads :
    /\ pc[t] = "ba_count" /\ reg[t].ord = 0
    /\ FreeList(0) # <<>> /\ Head(FreeList(0)) = reg[t].idx + 1
    /\ FreeList(1) # <<>> /\ Head(FreeList(1)) = reg[t].idx + 2

(***************************************************************************)
(* Buddy::free under interleaving (lib.rs:466-492): whether a block and    *)
(* its buddy can both stay on the free list of their order.                *)
(***************************************************************************)
\* No thread is inside Buddy::alloc or Buddy::free.
BuddyQuiescent ==
  \A t \in Threads :
    pc[t] \notin {"ba_pop", "ba_split", "ba_count", "bf_merge", "bf_push"}

\* No free list holds a block together with its buddy of the same order.
NoBuddyPairFree ==
  \A o \in Orders \ {BUDDY_MAX_ORDER} :
    \A k \in 1..Len(FreeList(o)) :
      ~InSeq(buddy_of(FreeList(o)[k], o), FreeList(o))

\* Every block the buddy handed out has been freed.
AllBlocksFreed ==
  /\ Quiescent
  /\ nallocs > 0
  /\ GLOBAL_ACTIVE_SPAN_COUNTER = 0

\* C32: in every quiescent state of the buddy (no alloc or free in
\* progress) no free list holds both a block and its buddy at the same
\* order; once every allocated block has been freed, also by frees that ran
\* concurrently, the buddy holds exactly one entry, index 0 at the top order.
C32_NoFreeBuddyPair ==
  BuddyQuiescent
    => /\ NoBuddyPairFree
       /\ AllBlocksFreed => SingleFreeEntry(BUDDY_MAX_ORDER)

(***************************************************************************)
(* When Buddy::alloc returns None (lib.rs:462): what the other threads     *)
(* hold and what the free lists hold at that moment.                       *)
(***************************************************************************)
\* Thread t's walk misses at the top order: the call returns None.
AllocFails(t) ==
  /\ BuddyStep(t, "ba_pop")
  /\ reg[t].o = BUDDY_MAX_ORDER
  /\ FreeList(BUDDY_MAX_ORDER) = <<>>

\* A free list holds a block of order k or more.
FreeBlockListed(k) ==
  \E o \in Orders : o >= k /\ FreeList(o) # <<>>

\* Another thread is about to push a free block of order k or more: an upper
\* half inside the split loop, or the freed or merged block inside free.
FreeBlockInTransit(t, k) ==
  \E u \in Threads \ {t} :
    \/ pc[u] = "ba_split" /\ reg[u].o >= k
    \/ pc[u] \in {"bf_merge", "bf_push"} /\ reg[u].ord >= k

\* C33: Buddy alloc(order) returns None only when the arena has no free
\* block of the requested order or more: neither a concurrent alloc that is
\* still pushing its split halves nor a concurrent free between removing a
\* buddy and pushing the merged block makes another thread's alloc fail while
\* enough free memory exists.
C33_AllocFailsOnlyWithoutFreeBlock ==
  [][\A t \in Threads :
       AllocFails(t) => /\ ~FreeBlockListed(reg[t].ord)
                        /\ ~FreeBlockInTransit(t, reg[t].ord)]_vars

(***************************************************************************)
(* The same program with the reuse cache at the limit of the source: a     *)
(* stack of the reuse cache takes a second span.                           *)
(***************************************************************************)
\* const REUSE_CACHE_LIMIT (lib.rs:65).
REUSE_CACHE_LIMIT_UNSCALED == 4

\* ReuseCache::push, the check of the count (lib.rs:594-596).
ReuseCache_push_check_unscaled(t) ==
  /\ pc[t] \in {"rup_count", "fs_count"}
  /\ IF UGe(reuse_counts[reg[t].cpu], REUSE_CACHE_LIMIT_UNSCALED)
     THEN Goto(t, IF pc[t] = "rup_count" THEN "rup_undo" ELSE "fs_gpush")
     ELSE Goto(t, IF pc[t] = "rup_count" THEN "rup_cas" ELSE "fs_cas")
  /\ UNCHANGED <<span, heap, reg, cache_heads, reuse_heads, reuse_counts, orders,
                 GLOBAL_ACTIVE_SPAN_COUNTER, live, nallocs, calc, xVars>>

NextUnscaled ==
  \E t \in Threads :
    \/ alloc_small_loop(t)
    \/ alloc_small_bump(t)
    \/ global_pop_load(t)
    \/ global_pop_cas(t)
    \/ reuse_pop_load(t)
    \/ reuse_pop_cas(t)
    \/ reuse_pop_count(t)
    \/ claim(t)
    \/ claim_clear(t)
    \/ claim_used(t)
    \/ claim_drain(t)
    \/ claim_owner(t)
    \/ claim_done(t)
    \/ buddy_alloc_pop(t)
    \/ buddy_alloc_split(t)
    \/ buddy_alloc_count(t)
    \/ fresh_span_used(t)
    \/ init_span_remote(t)
    \/ init_span_owner(t)
    \/ init_span_rest(t)
    \/ retire_publish(t)
    \/ retire_orphan(t)
    \/ retire_used(t)
    \/ retire_clear_reuse(t)
    \/ retire_clear_remote(t)
    \/ retire_cache(t)
    \/ retire_global_push(t)
    \/ retire_remote(t)
    \/ reuse_push_active(t)
    \/ reuse_push_swap(t)
    \/ reuse_push_owner(t)
    \/ reuse_push_undo(t)
    \/ ReuseCache_push_check_unscaled(t)
    \/ ReuseCache_push_cas(t)
    \/ ReuseCache_push_count(t)
    \/ free_small_begin(t)
    \/ free_small_remote(t)
    \/ free_small_orphan(t)
    \/ free_small_sub(t)
    \/ free_small_last(t)
    \/ free_small_swap(t)
    \/ free_small_recheck(t)
    \/ free_small_undo(t)
    \/ free_small_global_push(t)
    \/ drop_begin(t)
    \/ drop_owner(t)
    \/ drop_reuse(t)
    \/ drop_remote(t)
    \/ drop_global_push(t)

SpecUnscaled == Init /\ [][NextUnscaled]_vars

(***************************************************************************)
(* Termination of the claim loop of get_span_small (lib.rs:762-782): the   *)
(* loop ends when a pop returns null or a popped span is claimed.          *)
(***************************************************************************)
\* Thread t is inside the claim loop: at the pop or at the CAS of the owner.
InClaimLoop(t) ==
  pc[t] \in {"rp_load", "rp_cas", "rp_count", "rp_claim"}

\* The reuse stack of shard sh never runs empty: its links form a cycle.
ReuseCycle(sh) == Len(ReuseStack(sh)) = ChainLimit

\* No span linked in the reuse stack of shard sh has owner == orphan.
NoneClaimable(sh) ==
  \A k \in 1..Len(ReuseStack(sh)) :
    span[ReuseStack(sh)[k]].owner # SPAN_OWNER_ORPHAN

\* Thread t is in the claim loop, the first reuse stack it pops from is a
\* cycle of spans it cannot claim, the span it has popped is one of them, and
\* every other thread is at rest.
ClaimLoopStuck(t) ==
  /\ InClaimLoop(t)
  /\ \A u \in Threads \ {t} : pc[u] \in {"idle", "dead"}
  /\ reg[t].i = 0
  /\ ReuseCycle(ShardOf(t))
  /\ NoneClaimable(ShardOf(t))
  /\ pc[t] \in {"rp_count", "rp_claim"}
       => InSeq(reg[t].sp, ReuseStack(ShardOf(t)))

\* A step of the stuck thread leaves it stuck: the loop has no exit.
StuckStaysStuck ==
  [][\A t \in Threads :
       ClaimLoopStuck(t) /\ pc'[t] # pc[t] => ClaimLoopStuck(t)']_vars

\* C34: every alloc_small and get_span_small call terminates when the other
\* threads perform finitely many operations; in particular the claim loop
\* cannot pop the same span forever: no call reaches a state where, with
\* every other thread at rest, the stack it pops from is a cycle of spans
\* none of which it can claim.
C34_ClaimLoopTerminates ==
  \A t \in Threads : ~ClaimLoopStuck(t)

(***************************************************************************)
(* The owner's lists (lib.rs:1011-1065, 1079-1087): a local free goes to   *)
(* hot_block, and alloc_small serves hot_block, local_free, the drained    *)
(* remote_free and the bump region, in this order.                         *)
(***************************************************************************)
\* Thread t begins a free of a block of a span it owns.
LocalFreeStep(t) == pc[t] = "idle" /\ pc'[t] = "fs_sub"

\* The local free: p into hot_block, a displaced hot block prepended to
\* local_free, nothing else of the span written.
LocalFreeToHot(t) ==
  LocalFreeStep(t) =>
    LET s == reg'[t].sp
        p == reg'[t].blk
        old_hot == span[s].hot_block IN
    /\ span[s].owner = t
    /\ span'[s].hot_block = p
    /\ span'[s].local_free = IF old_hot # NULL
                             THEN <<old_hot>> \o span[s].local_free
                             ELSE span[s].local_free
    /\ span'[s].used = span[s].used
    /\ span'[s].bump = span[s].bump

\* used.fetch_sub(1) of the free that follows.
LocalFreeDecrements(t) ==
  pc[t] = "fs_sub" /\ pc'[t] # pc[t]
    => span'[reg[t].sp].used = span[reg[t].sp].used - 1

\* Block b of span s is handed to a caller in this step.
Served(s, b) == live'[s][b] = live[s][b] + 1

\* The block handed out is hot_block if there is one, else the head of
\* local_free if there is one, else the next block of the bump region; used
\* goes up by one.
ServesInOrder ==
  \A s \in Spans, b \in Blocks :
    Served(s, b) =>
      /\ span'[s].used = span[s].used + 1
      /\ IF span[s].hot_block # NULL
         THEN /\ b = span[s].hot_block
              /\ span'[s].hot_block = NULL
              /\ span'[s].local_free = span[s].local_free
              /\ span'[s].bump = span[s].bump
         ELSE IF span[s].local_free # <<>>
         THEN /\ b = Head(span[s].local_free)
              /\ span'[s].local_free = Tail(span[s].local_free)
              /\ span'[s].bump = span[s].bump
         ELSE /\ b = span[s].bump
              /\ span'[s].bump = span[s].bump + 1

\* remote_free is swapped out before the bump region is tried: the step
\* that goes on to the bump has found the three lists empty, and the drain
\* moves the whole of remote_free to local_free.
DrainsBeforeBump(t) ==
  LET s == heap[t].spans IN
  /\ pc[t] # "as_bump" /\ pc'[t] = "as_bump"
       => /\ span[s].hot_block = NULL
          /\ span[s].local_free = <<>>
          /\ span[s].remote_free = <<>>
  /\ pc[t] \in {"idle", "wh_tls"} /\ pc'[t] = "as_loop" /\ s # NULL
       => /\ span[s].hot_block = NULL /\ span[s].local_free = <<>>
          /\ span'[s].local_free = span[s].remote_free
          /\ span'[s].remote_free = <<>>

\* While the owner is between two calls nobody else takes or replaces the
\* hot block of its active span: it changes only when the owner is served
\* it.
HotKeptForOwner(t) ==
  LET s == heap[t].spans IN
  /\ pc[t] = "idle" /\ pc'[t] = "idle" /\ s # NULL /\ span[s].owner = t
  /\ span'[s].hot_block # span[s].hot_block
  => /\ Served(s, span[s].hot_block)
     /\ \A u \in Threads \ {t} : heap[u].spans # s

\* C35: a local free (owner == freeing thread) puts the block in hot_block
\* and prepends a displaced previous hot block to local_free, and allocation
\* serves hot_block first, then local_free, then drained remote_free, then
\* the bump region: so when the owner frees block p of its active span and
\* next allocates the same class, it gets p back, and used is unchanged over
\* the pair.
C35_LocalFreeThenAllocReturnsBlock ==
  [][/\ ServesInOrder
     /\ \A t \in Threads : /\ LocalFreeToHot(t)
                           /\ LocalFreeDecrements(t)
                           /\ DrainsBeforeBump(t)
                           /\ HotKeptForOwner(t)]_vars

=============================================================================
